---- MODULE Spec2Model ----
(***************************************************************************)
(* WebCurlServer (src/src/index.ts): the browser session, the tab pool,    *)
(* the per-tab console/network buffers, the idle timer and the CallTool    *)
(* handler, as a state machine.  A tool call is a frame with a position    *)
(* (pc); one action is one run-to-completion segment of the event loop:    *)
(* the code between two awaits.  A frame whose pc is in SyncPcs is the     *)
(* code currently running, and nothing else moves until it reaches its     *)
(* next await.                                                             *)
(***************************************************************************)
EXTENDS Integers, Sequences, FiniteSets, TLC

\* ---- program constants ----
MAX_TABS == 10
BUFFER_CAP == 100
NAME_CUT == 60          \* characters of the first line of innerText kept in a name
DEFAULT_SLICE == 20000  \* characters of an HTML slice when endIndex is left out
EXPIRY_DAYS == 5        \* expiryMs of cleanupOldFiles, in days

\* ---- bounds of the model ----
MaxStimuli == 3         \* tool calls received plus tabs that close by themselves
MaxShort == 2           \* tool calls received in the specifications other than SpecSeq
MaxUrls == 2            \* length of a batch_navigate urls array
MaxQueries == 2         \* length of a multi_search queries array
MaxEdits == 2           \* changes made to a document after it was loaded
PageSize == 100         \* characters a paging caller asks for when it names an endIndex
MaxEvents == 102        \* events per buffer in the buffer specification
SideEvents == 1         \* events buffered outside the buffer that receives one
NavEvents == 2          \* events per buffer in the navigation specification
MaxDay == 7             \* oldest age of a file, in days, that is told apart from older ones
MaxShots == 2           \* take_screenshot calls in the screenshot specification

Slots == {1, 2}         \* two tool calls may be in flight at once
Urls == {"ok", "bad"}   \* a URL that loads and one whose navigation fails
NoIdx == 0 - 2           \* the index argument left out (undefined)

VARIABLES
  browser,            \* this.browser: 0 is null, otherwise the browser's id
  pages,              \* this.pages: the ordered tab list
  activePageIndex,    \* this.activePageIndex (0-based)
  networkRequests,    \* this.networkRequests: Map<Page, any[]>
  consoleMessages,    \* this.consoleMessages: Map<Page, any[]>
  browserURL,         \* this.browserURL is set
  idleTimer,          \* this.idleTimer: "none", "pending" or "fired"
  timers,             \* the timeouts pending in the runtime, oldest first: of each,
                      \* how many tool calls began after it was armed
  pidFile,            \* logs/browser.pid: 0 is absent, otherwise the recorded pid
  calls,              \* the CallTool invocations in flight, by slot
  timerJob,           \* the idle timer's callback: its position and the browser it closes
  sigJob,             \* the SIGINT/SIGTERM/stdin-close cleanup: its position
  exited,             \* process.exit(0) was called
  alive,              \* browsers (processes or remote instances) that are running
  launched,           \* browsers this server started with puppeteer.launch
  open,               \* tabs that are open in a running browser
  owner,              \* tab -> the browser it belongs to
  hooked,             \* tabs whose console/request/close listeners setupPage registered
  nextTab,            \* next fresh tab id
  nextBrowser,        \* next fresh browser id
  document,           \* the document snapshots are taken of: its elements, and the
                      \* outlines of the last two snapshots
  html,               \* the markup page.content() returns, and the latest reply of
                      \* the HTML mode of browser_snapshot
  shots,              \* this.customScreenshotDirs, the screenshot files on disk and
                      \* the clock (the day number modulo 2)
  mru,                \* the tab of the pool most recently selected, created or
                      \* worked on by a tool call (0: none)
  ops                 \* how many tool calls and self-closing tabs there were so far

timer == <<idleTimer, timers>>
srv == <<browser, pages, activePageIndex, networkRequests, consoleMessages,
         browserURL, timer, pidFile>>
content == <<document, html, shots>>
env == <<alive, launched, open, owner, hooked, nextTab, nextBrowser, content>>
vars == <<srv, calls, timerJob, sigJob, exited, env, mru, ops>>

\* ---- helpers ----
Range(q) == {q[i] : i \in 1..Len(q)}
Max(a, b) == IF a >= b THEN a ELSE b
Last(q) == q[Len(q)]
Without(q, t) == SelectSeq(q, LAMBDA x : x # t)
EmptyMap == [t \in {} |-> <<>>]
MapDelete(m, t) == [k \in DOMAIN m \ {t} |-> m[k]]
MapSet(m, t, v) == [k \in DOMAIN m \cup {t} |-> IF k = t THEN v ELSE m[k]]
TabsOf(b) == {t \in DOMAIN owner : owner[t] = b}
\* the pages of browser b in the order browser.pages() lists them
RECURSIVE SeqOfSet(_)
SeqOfSet(S) ==
  IF S = {} THEN <<>>
  ELSE LET m == CHOOSE x \in S : \A y \in S : x <= y
       IN <<m>> \o SeqOfSet(S \ {m})
Buffered ==
  LET RECURSIVE Sum(_)
      Sum(S) == IF S = {} THEN 0
                ELSE LET t == CHOOSE x \in S : TRUE
                     IN Len(consoleMessages[t]) + Sum(S \ {t})
      RECURSIVE SumN(_)
      SumN(S) == IF S = {} THEN 0
                 ELSE LET t == CHOOSE x \in S : TRUE
                      IN Len(networkRequests[t]) + SumN(S \ {t})
  IN Sum(DOMAIN consoleMessages) + SumN(DOMAIN networkRequests)

\* ---- frames of tool calls ----
\* ev: what the last step of the running createNewPage did (kind "evict": the tab
\* it closed; kind "push": the tab it appended; kind "loop": anything else), with
\* the tab list and the most recently used tab before that step, the length of the
\* tab list when the loop of line 324 was first evaluated (len0) and the number of
\* close() calls the loop has issued (n)
\* before: the session, the tab list, the active pointer and the keys of the two
\* buffer maps as they were when the call arrived (set: a call has arrived)
NoSnap ==
  [set |-> FALSE, browser |-> 0, pages |-> <<>>, active |-> 0, netKeys |-> {},
   conKeys |-> {}]
NoEv == [kind |-> "none", tab |-> 0, mru |-> 0, pre |-> <<>>, len0 |-> 0, n |-> 0]
\* tried: the ways of getting a browser the running getBrowser has tried so far, in
\* order: 1 the configured endpoint, 2 the local debugging endpoint, 3 a launch
\* the top-level navigation a call started: the tab, and the numbers the tab's next
\* console and request events had when the navigation began (tab 0: none)
NoNav == [tab |-> 0, con |-> 0, net |-> 0]
IdleFrame ==
  [tool |-> "none", pc |-> "idle", stack |-> <<>>, act |-> "none", idx |-> NoIdx,
   br |-> 0, pg |-> 0, via |-> 0, args |-> <<>>, urls |-> <<>>, results |-> <<>>,
   out |-> "none", ev |-> NoEv, inflightTeardown |-> FALSE, before |-> NoSnap,
   valid |-> TRUE, pending |-> {}, nav |-> NoNav, tried |-> <<>>]

SyncPcs == {"gb", "gp", "cnp_loop", "cnp_ret", "tabs_go", "tabs_new_ret", "conn_ret",
            "nav_go", "bn_loop", "bn_created", "pt_go", "spin", "done",
            "ms_go", "pl_go", "ba_go", "ba_act"}
Running(s) == calls[s].pc \in SyncPcs
Busy == \E s \in Slots : Running(s)
Free(s) == calls[s].pc = "idle"
InFlight(s) == ~Free(s)

Upd(s, f) == calls' = [calls EXCEPT ![s] = f]
\* a call ends: the handler returns its result (out = "ok") or the catch at
\* index.ts:1016 returns the error result (out = "err")
Done(f, o) ==
  [IdleFrame EXCEPT !.tool = f.tool, !.pc = "done", !.out = o, !.act = f.act,
                    !.idx = f.idx, !.args = f.args, !.results = f.results,
                    !.inflightTeardown = f.inflightTeardown, !.before = f.before,
                    !.valid = f.valid, !.nav = f.nav]
\* the result is handed to the transport and the invocation is over
Respond(s) ==
  /\ calls[s].pc = "done"
  /\ calls' = [calls EXCEPT ![s] = IdleFrame]
  /\ UNCHANGED <<srv, timerJob, sigJob, exited, env, mru, ops>>
\* return from getBrowser / getPage / createNewPage to the caller's continuation
Return(f) == [f EXCEPT !.pc = Head(f.stack), !.stack = Tail(f.stack), !.tried = <<>>]
\* call getBrowser and continue at the labels of rets
CallGb(f, rets) == [f EXCEPT !.pc = "gb", !.stack = rets \o f.stack]
\* batch_navigate's per-URL try block (index.ts:863-873) is on the stack
InBatchTry(f) ==
  /\ f.tool = "batch_navigate"
  /\ \/ f.pc \in {"bn_goto", "bn_settle"}
     \/ f.stack # <<>> /\ Last(f.stack) = "bn_created"
\* (tab is not part of the reply: it remembers the tab the record is about)
ErrorRecord(u) == [url |-> u, status |-> "error", tabIndex |-> -1, tab |-> 0]
SuccessRecord(u, i) == [url |-> u, status |-> "success", tabIndex |-> i, tab |-> 0]
\* the handler's catch (index.ts:1016-1018) turns the exception into an error
\* result; without it the exception would leave the handler
Uncaught(f) == Done(f, "exception")
Caught(f) == Done(f, "err")
\* an exception: caught per URL inside batch_navigate's loop, otherwise by the
\* handler's catch
Throw(f) ==
  IF InBatchTry(f)
  THEN [f EXCEPT !.pc = "bn_loop", !.stack = <<>>, !.pg = 0, !.ev = NoEv, !.tried = <<>>,
                 !.results = Append(@, ErrorRecord(Head(f.urls))),
                 !.urls = Tail(@)]
  ELSE Caught(f)

\* no markup is loaded yet, nothing was asked
NoArgs == [hasStart |-> FALSE, startIndex |-> 0, hasEnd |-> FALSE, endIndex |-> 0]
NoReply ==
  [set |-> FALSE, totalLength |-> 0, startIndex |-> 0, endIndex |-> 0,
   remainingCharacters |-> 0, content |-> <<>>]
NoHtml ==
  [loaded |-> FALSE, text |-> <<>>, args |-> NoArgs, reply |-> NoReply,
   paging |-> "no", got |-> <<>>]
\* no document is loaded yet
NoDocument == [loaded |-> FALSE, els |-> <<>>, edits |-> 0, fresh |-> FALSE, snaps |-> <<>>]

\* the constructor's cleanupOldFiles (index.ts:90) found nothing to delete; no
\* screenshot was taken yet
NoShots == [customScreenshotDirs |-> {}, files |-> {}, day |-> 0, taken |-> 0]

Init ==
  /\ browser = 0 /\ pages = <<>> /\ activePageIndex = 0
  /\ networkRequests = EmptyMap /\ consoleMessages = EmptyMap
  /\ browserURL = FALSE /\ idleTimer = "none" /\ timers = <<>>
  /\ pidFile = 0            \* run() has removed a prior run's marker (index.ts:1102)
  /\ calls = [s \in Slots |-> IdleFrame]
  /\ timerJob = [pc |-> "idle", br |-> 0]
  /\ sigJob = [pc |-> "none", br |-> 0]
  /\ exited = FALSE
  /\ alive = {} /\ launched = {} /\ open = {} /\ owner = EmptyMap
  /\ hooked = {}
  /\ nextTab = 1 /\ nextBrowser = 1
  /\ document = NoDocument
  /\ html = NoHtml
  /\ shots = NoShots
  /\ mru = 0
  /\ ops = 0

\* ---- effects shared by several handlers ----

\* resetIdleTimer (index.ts:292-305): clear the pending timer, arm a new one
ArmedTimer == "pending"
\* clearTimeout(this.idleTimer) (line 293): the handle is that of the timeout armed
\* last; on a handle that is null or has fired it does nothing
ClearTimeout(q) ==
  IF idleTimer = "pending" /\ q # <<>> THEN SubSeq(q, 1, Len(q) - 1) ELSE q
\* setTimeout (line 294): one more pending timeout; no call has begun after it
SetTimeout(q) == Append(q, 0)
ResetIdleTimerKept(q) == idleTimer' = ArmedTimer /\ timers' = SetTimeout(q)
ResetIdleTimer(q) == idleTimer' = ArmedTimer /\ timers' = SetTimeout(ClearTimeout(q))
\* a tool call begins: every timeout still pending was armed before it
Aged(q) == [i \in 1..Len(q) |-> q[i] + 1]

\* the 'close' listener of setupPage (index.ts:357-367)
ClosePages(t) == Without(pages, t)
CloseActiveLast(t) ==
  IF t \in Range(pages) THEN Max(0, Len(ClosePages(t)) - 1) ELSE activePageIndex
CloseActive(t) ==
  IF t \in Range(pages) /\ activePageIndex >= Len(ClosePages(t))
  THEN Max(0, Len(ClosePages(t)) - 1)
  ELSE activePageIndex
OnClose(t) ==
  /\ consoleMessages' = MapDelete(consoleMessages, t)
  /\ networkRequests' = MapDelete(networkRequests, t)
  /\ pages' = ClosePages(t)
  /\ activePageIndex' = CloseActive(t)

\* the 'close' listeners of the tabs ts, run one after the other
RECURSIVE CloseAll(_, _, _)
CloseAll(q, a, ts) ==
  IF ts = <<>> THEN [pages |-> q, active |-> a]
  ELSE LET t == Head(ts)
           q2 == Without(q, t)
           a2 == IF t \in Range(q) /\ a >= Len(q2) THEN Max(0, Len(q2) - 1) ELSE a
       IN CloseAll(q2, a2, Tail(ts))

\* the body of the 'console' / 'request' listeners (index.ts:345-355): push, then
\* drop the oldest entry when the buffer is longer than 100
Untrimmed(buf) == buf
Trimmed(buf) == IF Len(buf) > BUFFER_CAP THEN Tail(buf) ELSE buf
Pushed(buf, e) == Trimmed(Append(buf, e))
\* events are numbered in arrival order per buffer
NextEvent(buf) == IF buf = <<>> THEN 1 ELSE Last(buf) + 1
\* a listener of tab t records an event: the array the map holds for t gets it
RecordedByAll(map, t) == [k \in DOMAIN map |-> Pushed(map[k], NextEvent(map[k]))]
Recorded(map, t) == [map EXCEPT ![t] = Pushed(@, NextEvent(@))]
\* a top-level navigation of tab t begins now, with the buffers con and net
NavOf(t, con, net) ==
  [tab |-> t, con |-> IF t \in DOMAIN con THEN NextEvent(con[t]) ELSE 1,
   net |-> IF t \in DOMAIN net THEN NextEvent(net[t]) ELSE 1]

\* a browser stops running: its tabs are gone with it
Stopped(b) ==
  /\ alive' = alive \ {b}
  /\ open' = open \ TabsOf(b)

\* a teardown that forgets the session and the tab list only
TeardownPartial ==
  /\ browser' = 0
  /\ pages' = <<>>
  /\ UNCHANGED <<activePageIndex, networkRequests, consoleMessages>>
\* the teardown of browser_close and of the idle callback (index.ts:788-792, 298-302)
Teardown ==
  /\ browser' = 0
  /\ pages' = <<>>
  /\ activePageIndex' = 0
  /\ networkRequests' = EmptyMap
  /\ consoleMessages' = EmptyMap

\* ---- getBrowser (index.ts:211-290) ----

\* line 212: a session exists: resetIdleTimer and return it; otherwise start
\* connecting to the configured endpoint, or to 127.0.0.1:9222
GbEnter(s) ==
  LET f == calls[s] IN
  /\ f.pc = "gb"
  /\ IF browser # 0
     THEN /\ ResetIdleTimer(timers)
          /\ Upd(s, [Return(f) EXCEPT !.br = browser])
     ELSE /\ UNCHANGED timer
          /\ Upd(s, [f EXCEPT !.pc = "gb_conn", !.via = IF browserURL THEN 1 ELSE 2,
                              !.tried = <<IF browserURL THEN 1 ELSE 2>>])
  /\ UNCHANGED <<browser, pages, activePageIndex, networkRequests, consoleMessages,
                 browserURL, pidFile, timerJob, sigJob, exited, env, mru, ops>>

\* browsers this server is attached to (reached with puppeteer.connect) and that
\* are running
Attached == alive \ launched

\* lines 216 / 238: puppeteer.connect resolves: this.browser is the instance found
\* at the endpoint, which has k tabs open
GbConnected(s, k) ==
  LET f == calls[s]
      b == nextBrowser
      ts == nextTab .. (nextTab + k - 1)
  IN
  /\ f.pc = "gb_conn" /\ ~Busy
  /\ Attached = {}
  /\ browser' = b
  /\ alive' = alive \cup {b}
  /\ open' = open \cup ts
  /\ owner' = [t \in DOMAIN owner \cup ts |-> IF t \in ts THEN b ELSE owner[t]]
  /\ nextTab' = nextTab + k
  /\ nextBrowser' = b + 1
  /\ Upd(s, [f EXCEPT !.pc = "gb_pages"])
  /\ UNCHANGED <<content, pages, activePageIndex, networkRequests, consoleMessages, browserURL,
                 timer, pidFile, timerJob, sigJob, exited, launched, hooked, mru, ops>>

\* lines 216 / 238 when another call's connect has already attached the instance
\* at the endpoint: this call's connect reaches the same instance and its tabs
GbReconnected(s) ==
  LET f == calls[s] IN
  /\ f.pc = "gb_conn" /\ ~Busy
  /\ Attached # {}
  /\ browser' = CHOOSE b \in Attached : TRUE
  /\ Upd(s, [f EXCEPT !.pc = "gb_pages"])
  /\ UNCHANGED <<pages, activePageIndex, networkRequests, consoleMessages, browserURL,
                 timer, pidFile, timerJob, sigJob, exited, env, mru, ops>>

\* lines 223 / 243: this.pages = await this.browser.pages()
GbPages(s) ==
  LET f == calls[s] IN
  /\ f.pc = "gb_pages" /\ ~Busy
  /\ IF browser # 0 /\ browser \in alive
     THEN /\ pages' = SeqOfSet(TabsOf(browser) \cap open)
          /\ Upd(s, [f EXCEPT !.pc = "gb_setup"])
          /\ UNCHANGED browserURL
     ELSE \* browser.pages() rejects (or this.browser is null): the catch of the try
          /\ pages' = pages
          /\ browserURL' = IF f.via = 1 THEN FALSE ELSE browserURL
          /\ Upd(s, [f EXCEPT !.pc = IF f.via = 1 THEN "gb_conn" ELSE "gb_fallback",
                              !.via = 2,
                              !.tried = IF f.via = 1 THEN Append(@, 2) ELSE @])
  /\ mru' = IF mru \in Range(pages') THEN mru ELSE 0
  /\ UNCHANGED <<browser, activePageIndex, networkRequests, consoleMessages, timer,
                 pidFile, timerJob, sigJob, exited, env, ops>>

\* lines 224-229 / 244-246: setupPage for each page of this.pages, the active
\* pointer to 0, and return this.browser (without resetIdleTimer)
GbSetup(s) ==
  LET f == calls[s] IN
  /\ f.pc = "gb_setup" /\ ~Busy
  /\ IF Range(pages) \subseteq open
     THEN /\ consoleMessages' =
               [t \in DOMAIN consoleMessages \cup Range(pages) |->
                  IF t \in Range(pages) THEN <<>> ELSE consoleMessages[t]]
          /\ networkRequests' =
               [t \in DOMAIN networkRequests \cup Range(pages) |->
                  IF t \in Range(pages) THEN <<>> ELSE networkRequests[t]]
          /\ hooked' = hooked \cup Range(pages)
          /\ activePageIndex' = IF Len(pages) > 0 THEN 0 ELSE activePageIndex
          /\ Upd(s, [Return(f) EXCEPT !.br = browser, !.via = 0])
          /\ UNCHANGED browserURL
     ELSE \* setUserAgent rejects on a tab that is gone: the catch of the try
          /\ browserURL' = IF f.via = 1 THEN FALSE ELSE browserURL
          /\ Upd(s, [f EXCEPT !.pc = IF f.via = 1 THEN "gb_conn" ELSE "gb_fallback",
                              !.via = 2,
                              !.tried = IF f.via = 1 THEN Append(@, 2) ELSE @])
          /\ UNCHANGED <<consoleMessages, networkRequests, hooked, activePageIndex>>
  /\ UNCHANGED <<content, browser, pages, timer, pidFile, timerJob, sigJob, exited, alive,
                 launched, open, owner, nextTab, nextBrowser, mru, ops>>

\* lines 230-233: the connect to the configured endpoint rejects: forget the
\* endpoint and try 127.0.0.1:9222
GbConnFailed1(s) ==
  LET f == calls[s] IN
  /\ f.pc = "gb_conn" /\ f.via = 1 /\ ~Busy
  /\ browserURL' = FALSE
  /\ Upd(s, [f EXCEPT !.via = 2, !.tried = Append(@, 2)])
  /\ UNCHANGED <<browser, pages, activePageIndex, networkRequests, consoleMessages,
                 timer, pidFile, timerJob, sigJob, exited, env, mru, ops>>

\* killExistingBrowser (index.ts:188-209): kill the recorded pid, remove the marker
KilledAliveNone == alive
KilledAlive == IF pidFile # 0 THEN alive \ {pidFile} ELSE alive
KilledOpen == IF pidFile # 0 THEN open \ TabsOf(pidFile) ELSE open

\* lines 247-278: nothing listens on 9222 (or the attach failed): kill the recorded
\* browser, then puppeteer.launch spawns a browser process (spawn), or rejects
GbLaunch(s, spawn) ==
  LET f == calls[s]
      b == nextBrowser
  IN
  /\ ~Busy
  /\ \/ f.pc = "gb_conn" /\ f.via = 2
     \/ f.pc = "gb_fallback"
  /\ pidFile' = 0
  /\ IF spawn
     THEN /\ alive' = KilledAlive \cup {b}
          /\ launched' = launched \cup {b}
          /\ nextBrowser' = b + 1
          /\ Upd(s, [f EXCEPT !.pc = "gb_launch", !.br = b, !.tried = Append(@, 3)])
     ELSE /\ alive' = KilledAlive
          /\ UNCHANGED <<launched, nextBrowser>>
          /\ Upd(s, Throw(f))
  /\ open' = KilledOpen
  /\ UNCHANGED <<content, browser, pages, activePageIndex, networkRequests, consoleMessages,
                 browserURL, timer, timerJob, sigJob, exited, owner, hooked,
                 nextTab, mru, ops>>

\* lines 274-289: the launch resolves: this.browser is the new browser, its pid is
\* written to the marker, resetIdleTimer, return
GbLaunched(s) ==
  LET f == calls[s] IN
  /\ f.pc = "gb_launch" /\ ~Busy
  /\ browser' = f.br
  /\ pidFile' = f.br
  /\ ResetIdleTimer(timers)
  /\ Upd(s, [Return(f) EXCEPT !.via = 0])
  /\ UNCHANGED <<pages, activePageIndex, networkRequests, consoleMessages, browserURL,
                 timerJob, sigJob, exited, env, mru, ops>>

\* ---- createNewPage (index.ts:322-333) ----
\* The call of getBrowser at line 323 is CallGb(f, <<"cnp_loop", ...>>).

\* what an eviction / a push did: the tab, the tab list before it
Evicted(e, t) == [e EXCEPT !.kind = "evict", !.tab = t, !.mru = mru, !.pre = pages]
Pushed1(e, t) == [e EXCEPT !.kind = "push", !.tab = t, !.mru = mru, !.pre = pages]
\* the loop condition is evaluated: the first time, remember the length it saw
Looping(e) ==
  [e EXCEPT !.kind = "loop", !.tab = 0, !.mru = 0, !.pre = <<>>,
            !.len0 = IF e.kind = "none" THEN Len(pages) ELSE @]
\* line 325: the tab the loop closes
EvictLast(q) == q[Len(q)]
EvictTarget(q) == q[1]

\* line 324-326: at capacity, close this.pages[0]; line 329: otherwise open a page.
\* close() of a page that is already gone either rejects or resolves at once
\* without a 'close' event (gone = "throw" / "noop"), depending on the driver.
CnpLoop(s, gone) ==
  LET f == calls[s] IN
  /\ f.pc = "cnp_loop"
  /\ IF Len(pages) >= MAX_TABS
     THEN IF EvictTarget(pages) \in open
          THEN /\ gone = "throw"
               /\ Upd(s, [f EXCEPT !.pc = "cnp_close", !.pg = EvictTarget(pages),
                                   !.ev = [Looping(@) EXCEPT !.n = @ + 1]])
          ELSE IF gone = "throw"
               THEN Upd(s, Throw(f))
               ELSE Upd(s, [f EXCEPT !.pc = "spin", !.ev = Looping(@)])
     ELSE /\ gone = "throw"
          /\ Upd(s, [f EXCEPT !.pc = "cnp_newpage", !.pg = 0, !.ev = Looping(@)])
  /\ UNCHANGED <<srv, timerJob, sigJob, exited, env, mru, ops>>

\* the loop of line 324 never ends: close() resolves without removing pages[0],
\* and awaiting a settled promise never gives the event loop back.  One step is
\* half an iteration: the test of line 324, or the close() of line 326 on pages[0].
CnpSpin(s) ==
  LET f == calls[s] IN
  /\ f.pc = "spin"
  /\ Upd(s, [f EXCEPT !.pg = IF @ = 0 THEN EvictTarget(pages) ELSE 0])
  /\ UNCHANGED <<srv, timerJob, sigJob, exited, env, mru, ops>>

\* line 326 resolves: the tab is closed and its 'close' listener has run
CnpClosed(s) ==
  LET f == calls[s] IN
  /\ f.pc = "cnp_close" /\ ~Busy
  /\ f.pg \in open
  /\ open' = open \ {f.pg}
  /\ OnClose(f.pg)
  /\ mru' = IF mru = f.pg THEN 0 ELSE mru
  /\ Upd(s, [f EXCEPT !.pc = "cnp_loop", !.pg = 0, !.ev = Evicted(@, f.pg)])
  /\ UNCHANGED <<content, browser, browserURL, timer, pidFile, timerJob, sigJob, exited,
                 alive, launched, owner, hooked, nextTab, nextBrowser, ops>>

\* line 326 when the tab went away while close() was pending: close() resolves
\* (ok) or rejects
CnpCloseLate(s, ok) ==
  LET f == calls[s] IN
  /\ f.pc = "cnp_close" /\ ~Busy
  /\ f.pg \notin open
  /\ Upd(s, IF ok THEN [f EXCEPT !.pc = "cnp_loop", !.pg = 0] ELSE Throw(f))
  /\ UNCHANGED <<srv, timerJob, sigJob, exited, env, mru, ops>>

\* lines 329-332: newPage and setUserAgent resolve; the buffers are created, the
\* listeners registered, the page pushed and returned
CnpCreated(s) ==
  LET f == calls[s]
      t == nextTab
  IN
  /\ f.pc = "cnp_newpage" /\ ~Busy
  /\ f.br \in alive
  /\ nextTab' = t + 1
  /\ open' = open \cup {t}
  /\ owner' = [x \in DOMAIN owner \cup {t} |-> IF x = t THEN f.br ELSE owner[x]]
  /\ hooked' = hooked \cup {t}
  /\ consoleMessages' = MapSet(consoleMessages, t, <<>>)
  /\ networkRequests' = MapSet(networkRequests, t, <<>>)
  /\ pages' = Append(pages, t)
  /\ mru' = t
  /\ Upd(s, [f EXCEPT !.pc = "cnp_ret", !.pg = t, !.ev = Pushed1(@, t)])
  /\ UNCHANGED <<content, browser, activePageIndex, browserURL, timer, pidFile, timerJob,
                 sigJob, exited, alive, launched, nextBrowser, ops>>

\* line 332: return page
CnpRet(s) ==
  LET f == calls[s] IN
  /\ f.pc = "cnp_ret"
  /\ Upd(s, [Return(f) EXCEPT !.ev = NoEv])
  /\ UNCHANGED <<srv, timerJob, sigJob, exited, env, mru, ops>>

\* lines 329-330 reject (the browser is gone, or the page closed before it was set up)
CnpFailed(s) ==
  LET f == calls[s] IN
  /\ f.pc = "cnp_newpage" /\ ~Busy
  /\ Upd(s, Throw(f))
  /\ UNCHANGED <<srv, timerJob, sigJob, exited, env, mru, ops>>

\* ---- getPage (index.ts:307-320), after its getBrowser returned ----
GetPage(s) ==
  LET f == calls[s] IN
  /\ f.pc = "gp"
  /\ IF Len(pages) = 0
     THEN Upd(s, CallGb(f, <<"cnp_loop">>))
     ELSE IF activePageIndex >= Len(pages)
          THEN Upd(s, Throw(f))
          ELSE Upd(s, [Return(f) EXCEPT !.pg = pages[activePageIndex + 1]])
  /\ UNCHANGED <<srv, timerJob, sigJob, exited, env, mru, ops>>

\* ---- the CallTool handler (index.ts:729-1019) ----
\* Every call starts with resetIdleTimer (line 784).

Snap ==
  [set |-> TRUE, browser |-> browser, pages |-> pages, active |-> activePageIndex,
   netKeys |-> DOMAIN networkRequests, conKeys |-> DOMAIN consoleMessages]
Begin(s, f) ==
  /\ Free(s) /\ ~Busy
  /\ ops < MaxStimuli
  /\ ops' = ops + 1
  /\ ResetIdleTimer(Aged(timers))
  /\ Upd(s, [f EXCEPT !.before = Snap])

\* index arguments a caller may give: none, a negative one, the first two tabs,
\* one past the end
IndexInputs == {NoIdx, 0 - 1, 0, 1, Len(pages)}
TabActions == {"list", "new", "select", "close"}

\* browser_tabs (lines 808-837): getBrowser first, then the action
StartTabs(s, a, i) ==
  /\ Begin(s, [IdleFrame EXCEPT !.tool = "browser_tabs", !.act = a, !.idx = i,
                                !.pc = "gb", !.stack = <<"tabs_go">>])
  /\ a \in {"list", "new"} => i = NoIdx
  /\ UNCHANGED <<browser, pages, activePageIndex, networkRequests, consoleMessages,
                 browserURL, pidFile, timerJob, sigJob, exited, env, mru>>

TargetIdx(f) == IF f.idx # NoIdx THEN f.idx ELSE activePageIndex

TabsGo(s, gone) ==
  LET f == calls[s]
      i == TargetIdx(f)
  IN
  /\ f.pc = "tabs_go"
  /\ \/ /\ f.act = "list" /\ gone = "throw"
        /\ Upd(s, [f EXCEPT !.pc = "tabs_list"])
        /\ UNCHANGED <<activePageIndex, mru>>
     \/ /\ f.act = "new" /\ gone = "throw"
        /\ Upd(s, CallGb(f, <<"cnp_loop", "tabs_new_ret">>))
        /\ UNCHANGED <<activePageIndex, mru>>
     \/ /\ f.act = "select" /\ gone = "throw"
        /\ IF f.idx = NoIdx \/ f.idx < 0 \/ f.idx >= Len(pages)
           THEN /\ Upd(s, Throw(f))
                /\ UNCHANGED <<activePageIndex, mru>>
           ELSE /\ activePageIndex' = f.idx
                /\ mru' = pages[f.idx + 1]
                /\ Upd(s, Done(f, "ok"))
     \/ /\ f.act = "close"
        /\ IF i < 0 \/ i >= Len(pages)
           THEN /\ gone = "throw"
                /\ Upd(s, Throw(f))
           ELSE IF pages[i + 1] \in open
                THEN /\ gone = "throw"
                     /\ Upd(s, [f EXCEPT !.pc = "tabs_close", !.pg = pages[i + 1]])
                ELSE Upd(s, IF gone = "throw" THEN Throw(f) ELSE Done(f, "ok"))
        /\ UNCHANGED <<activePageIndex, mru>>
  /\ UNCHANGED <<browser, pages, networkRequests, consoleMessages, browserURL,
                 timer, pidFile, timerJob, sigJob, exited, env, ops>>

\* lines 812-818: the titles of all tabs arrive, or one of the tabs is gone
TabsListed(s) ==
  LET f == calls[s] IN
  /\ f.pc = "tabs_list" /\ ~Busy
  /\ Upd(s, Done(f, IF Range(pages) \subseteq open THEN "ok" ELSE "err"))
  /\ UNCHANGED <<srv, timerJob, sigJob, exited, env, mru, ops>>

\* lines 821-823: createNewPage returned: the new tab becomes the active one
TabsNewRet(s) ==
  LET f == calls[s] IN
  /\ f.pc = "tabs_new_ret"
  /\ activePageIndex' = Len(pages) - 1
  /\ Upd(s, Done(f, "ok"))
  /\ UNCHANGED <<browser, pages, networkRequests, consoleMessages, browserURL,
                 timer, pidFile, timerJob, sigJob, exited, env, mru, ops>>

\* line 834 resolves: the tab is closed and its 'close' listener has run
TabsClosed(s) ==
  LET f == calls[s] IN
  /\ f.pc = "tabs_close" /\ ~Busy
  /\ f.pg \in open
  /\ open' = open \ {f.pg}
  /\ OnClose(f.pg)
  /\ mru' = IF mru = f.pg THEN 0 ELSE mru
  /\ Upd(s, Done(f, "ok"))
  /\ UNCHANGED <<content, browser, browserURL, timer, pidFile, timerJob, sigJob, exited,
                 alive, launched, owner, hooked, nextTab, nextBrowser, ops>>

TabsCloseLate(s, ok) ==
  LET f == calls[s] IN
  /\ f.pc = "tabs_close" /\ ~Busy
  /\ f.pg \notin open
  /\ Upd(s, Done(f, IF ok THEN "ok" ELSE "err"))
  /\ UNCHANGED <<srv, timerJob, sigJob, exited, env, mru, ops>>

\* browser_close (lines 785-795)
StartClose(s) ==
  /\ Begin(s, IF browser # 0
              THEN [IdleFrame EXCEPT !.tool = "browser_close", !.pc = "bc_closing",
                                     !.br = browser]
              ELSE Done([IdleFrame EXCEPT !.tool = "browser_close"], "ok"))
  /\ UNCHANGED <<browser, pages, activePageIndex, networkRequests, consoleMessages,
                 browserURL, pidFile, timerJob, sigJob, exited, env, mru>>

BcClosed(s) ==
  LET f == calls[s] IN
  /\ f.pc = "bc_closing" /\ ~Busy
  /\ Stopped(f.br)
  /\ Teardown
  /\ mru' = 0
  /\ Upd(s, Done(f, "ok"))
  /\ UNCHANGED <<content, browserURL, timer, pidFile, timerJob, sigJob, exited, launched,
                 owner, hooked, nextTab, nextBrowser, ops>>

\* browser_connect (lines 797-806)
StartConnect(s) ==
  /\ Begin(s, IF browser # 0
              THEN [IdleFrame EXCEPT !.tool = "browser_connect", !.pc = "conn_closing",
                                     !.br = browser]
              ELSE [IdleFrame EXCEPT !.tool = "browser_connect", !.pc = "gb",
                                     !.stack = <<"conn_ret">>])
  /\ browserURL' = TRUE
  /\ UNCHANGED <<browser, pages, activePageIndex, networkRequests, consoleMessages,
                 pidFile, timerJob, sigJob, exited, env, mru>>

\* lines 801-804: the old browser is closed, this.browser = null, getBrowser.
\* Nothing here clears the tab list or the buffers: they change only if the
\* closing browser still delivers the 'close' events of its tabs (notify).
ConnClosed(s, notify) ==
  LET f == calls[s]
      ts == IF notify THEN TabsOf(f.br) \cap open \cap hooked ELSE {}
      after == CloseAll(pages, activePageIndex, SeqOfSet(ts))
  IN
  /\ f.pc = "conn_closing" /\ ~Busy
  /\ Stopped(f.br)
  /\ browser' = 0
  /\ pages' = after.pages
  /\ activePageIndex' = after.active
  /\ consoleMessages' = [t \in DOMAIN consoleMessages \ ts |-> consoleMessages[t]]
  /\ networkRequests' = [t \in DOMAIN networkRequests \ ts |-> networkRequests[t]]
  /\ mru' = IF mru \in ts THEN 0 ELSE mru
  /\ Upd(s, [f EXCEPT !.pc = "gb", !.stack = <<"conn_ret">>, !.br = 0])
  /\ UNCHANGED <<content, browserURL, timer, pidFile, timerJob, sigJob, exited, launched,
                 owner, hooked, nextTab, nextBrowser, ops>>

ConnRet(s) ==
  LET f == calls[s] IN
  /\ f.pc = "conn_ret"
  /\ Upd(s, Done(f, "ok"))
  /\ UNCHANGED <<srv, timerJob, sigJob, exited, env, mru, ops>>

\* browser_navigate (lines 839-858): getPage, reset the page's buffers, goto
StartNavigate(s, u) ==
  /\ Begin(s, [IdleFrame EXCEPT !.tool = "browser_navigate", !.args = <<u>>,
                                !.pc = "gb", !.stack = <<"gp", "nav_go">>])
  /\ UNCHANGED <<browser, pages, activePageIndex, networkRequests, consoleMessages,
                 browserURL, pidFile, timerJob, sigJob, exited, env, mru>>

NavGo(s) ==
  LET f == calls[s] IN
  /\ f.pc = "nav_go"
  /\ networkRequests' = MapSet(networkRequests, f.pg, <<>>)
  /\ consoleMessages' = MapSet(consoleMessages, f.pg, <<>>)
  /\ mru' = IF f.pg \in Range(pages) THEN f.pg ELSE mru
  /\ Upd(s, [f EXCEPT !.pc = "nav_goto",
                      !.nav = NavOf(f.pg, consoleMessages', networkRequests')])
  /\ UNCHANGED <<browser, pages, activePageIndex, browserURL, timer, pidFile,
                 timerJob, sigJob, exited, env, ops>>

\* line 846 resolves (the URL loads in a tab that is still open) or rejects
Loads(u, t) == u = "ok" /\ t \in open
NavLoaded(s) ==
  LET f == calls[s] IN
  /\ f.pc = "nav_goto" /\ ~Busy
  /\ Upd(s, IF Loads(f.args[1], f.pg) THEN [f EXCEPT !.pc = "nav_settle"] ELSE Throw(f))
  /\ UNCHANGED <<srv, timerJob, sigJob, exited, env, mru, ops>>

\* lines 848-858: waitForNetworkIdle (its timeout is swallowed) and the 1.5 s delay
NavSettled(s) ==
  LET f == calls[s] IN
  /\ f.pc = "nav_settle" /\ ~Busy
  /\ Upd(s, Done(f, "ok"))
  /\ UNCHANGED <<srv, timerJob, sigJob, exited, env, mru, ops>>

\* batch_navigate (lines 839, 859-875): getPage, then per URL createNewPage + goto
RECURSIVE SeqsUpTo(_, _)
SeqsUpTo(S, n) ==
  IF n = 0 THEN {<<>>}
  ELSE SeqsUpTo(S, n - 1) \cup {Append(q, x) : q \in SeqsUpTo(S, n - 1), x \in S}
UrlLists == SeqsUpTo(Urls, MaxUrls)

StartBatch(s, us) ==
  /\ Begin(s, [IdleFrame EXCEPT !.tool = "batch_navigate", !.args = us, !.urls = us,
                                !.pc = "gb", !.stack = <<"gp", "bn_loop">>])
  /\ UNCHANGED <<browser, pages, activePageIndex, networkRequests, consoleMessages,
                 browserURL, pidFile, timerJob, sigJob, exited, env, mru>>

BnLoop(s) ==
  LET f == calls[s] IN
  /\ f.pc = "bn_loop"
  /\ Upd(s, IF f.urls = <<>> THEN Done(f, "ok")
            ELSE CallGb(f, <<"cnp_loop", "bn_created">>))
  /\ UNCHANGED <<srv, timerJob, sigJob, exited, env, mru, ops>>

BnCreated(s) ==
  LET f == calls[s] IN
  /\ f.pc = "bn_created"
  /\ Upd(s, [f EXCEPT !.pc = "bn_goto"])
  /\ UNCHANGED <<srv, timerJob, sigJob, exited, env, mru, ops>>

BnLoaded(s) ==
  LET f == calls[s] IN
  /\ f.pc = "bn_goto" /\ ~Busy
  /\ Upd(s, IF Loads(Head(f.urls), f.pg) THEN [f EXCEPT !.pc = "bn_settle"] ELSE Throw(f))
  /\ UNCHANGED <<srv, timerJob, sigJob, exited, env, mru, ops>>

\* line 870: the success record carries this.pages.length - 1
BnSettled(s) ==
  LET f == calls[s] IN
  /\ f.pc = "bn_settle" /\ ~Busy
  /\ Upd(s, [f EXCEPT !.pc = "bn_loop", !.pg = 0,
                      !.results = Append(@, [SuccessRecord(Head(f.urls), Len(pages) - 1)
                                               EXCEPT !.tab = f.pg]),
                      !.urls = Tail(@)])
  /\ UNCHANGED <<srv, timerJob, sigJob, exited, env, mru, ops>>

\* tools that only need the page of getPage (line 839): browser_snapshot awaits an
\* evaluation in the page; the two buffer reads return at once
PageTools == {"browser_snapshot", "browser_console_messages", "browser_network_requests"}
StartPageTool(s, tool) ==
  /\ Begin(s, [IdleFrame EXCEPT !.tool = tool, !.pc = "gb", !.stack = <<"gp", "pt_go">>])
  /\ UNCHANGED <<browser, pages, activePageIndex, networkRequests, consoleMessages,
                 browserURL, pidFile, timerJob, sigJob, exited, env, mru>>

PtGo(s) ==
  LET f == calls[s] IN
  /\ f.pc = "pt_go"
  /\ mru' = IF f.pg \in Range(pages) THEN f.pg ELSE mru
  /\ Upd(s, IF f.tool = "browser_snapshot" THEN [f EXCEPT !.pc = "pt_wait"]
            ELSE Done(f, "ok"))
  /\ UNCHANGED <<srv, timerJob, sigJob, exited, env, ops>>

PtDone(s) ==
  LET f == calls[s] IN
  /\ f.pc = "pt_wait" /\ ~Busy
  /\ Upd(s, Done(f, IF f.pg \in open THEN "ok" ELSE "err"))
  /\ UNCHANGED <<srv, timerJob, sigJob, exited, env, mru, ops>>

\* multi_search (lines 839, 876-894): getPage, the keys, then one request per
\* query, all started by the map of line 882 before Promise.all is awaited.
\* An upstream answers with results ("ok"), is unreachable or answers with a body
\* that is not JSON ("down": fetch or response.json() rejects), or answers with an
\* error document ("denied": data.items is missing)
Upstreams == {"ok", "down", "denied"}
QueryLists == SeqsUpTo(Upstreams, MaxQueries)
\* line 889-892: the slot of query i; nothing in it tells a failure
SearchSlot(i, u) ==
  [query |-> i, results |-> IF u = "ok" THEN "items" ELSE "none", error |-> FALSE]
EmptySlot == [query |-> 0, results |-> "none", error |-> FALSE]

StartSearch(s, qs, keys) ==
  /\ Begin(s, [IdleFrame EXCEPT !.tool = "multi_search", !.args = qs, !.valid = keys,
                                !.pc = "gb", !.stack = <<"gp", "ms_go">>])
  /\ UNCHANGED <<browser, pages, activePageIndex, networkRequests, consoleMessages,
                 browserURL, pidFile, timerJob, sigJob, exited, env, mru>>

\* lines 878-882: without the keys throw; otherwise every request is started
MsGo(s) ==
  LET f == calls[s] IN
  /\ f.pc = "ms_go"
  /\ Upd(s, IF ~f.valid THEN Throw(f)
            ELSE [f EXCEPT !.pc = "ms_wait", !.pending = 1..Len(f.args),
                           !.results = [i \in 1..Len(f.args) |-> EmptySlot]])
  /\ UNCHANGED <<srv, timerJob, sigJob, exited, env, mru, ops>>

\* one request settles: its slot is filled, or its rejection rejects Promise.all
\* and with it the whole call
MsSettled(s, i) ==
  LET f == calls[s] IN
  /\ f.pc = "ms_wait" /\ ~Busy
  /\ i \in f.pending
  /\ Upd(s, IF f.args[i] = "down" THEN Throw(f)
            ELSE [f EXCEPT !.pending = @ \ {i},
                           !.results[i] = SearchSlot(i, f.args[i])])
  /\ UNCHANGED <<srv, timerJob, sigJob, exited, env, mru, ops>>

\* line 894: all requests are fulfilled: the slots are returned in query order
MsAll(s) ==
  LET f == calls[s] IN
  /\ f.pc = "ms_wait" /\ ~Busy
  /\ f.pending = {}
  /\ Upd(s, Done(f, "ok"))
  /\ UNCHANGED <<srv, timerJob, sigJob, exited, env, mru, ops>>

\* the tools that work on an upstream only (lines 920-1014) and a tool name the
\* handler does not know (line 1015): all of them pass getPage (line 839) first.
\* valid: fetch_api's arguments pass isValidFetchApiArgs; the search keys are
\* configured for google_search and smart_command
PlainTools == {"google_search", "smart_command", "parse_document", "download_file",
               "fetch_api", "unknown"}
Checked == {"google_search", "smart_command", "fetch_api"}
StartPlain(s, tool, valid) ==
  /\ tool \notin Checked => valid
  /\ Begin(s, [IdleFrame EXCEPT !.tool = tool, !.valid = valid,
                                !.pc = "gb", !.stack = <<"gp", "pl_go">>])
  /\ UNCHANGED <<browser, pages, activePageIndex, networkRequests, consoleMessages,
                 browserURL, pidFile, timerJob, sigJob, exited, env, mru>>

PlGo(s) ==
  LET f == calls[s] IN
  /\ f.pc = "pl_go"
  /\ Upd(s, IF f.tool = "unknown" \/ ~f.valid THEN Throw(f)
            ELSE [f EXCEPT !.pc = "pl_wait"])
  /\ UNCHANGED <<srv, timerJob, sigJob, exited, env, mru, ops>>

\* the upstream answers, or the request fails
PlDone(s, ok) ==
  LET f == calls[s] IN
  /\ f.pc = "pl_wait" /\ ~Busy
  /\ Upd(s, IF ok THEN Done(f, "ok") ELSE Throw(f))
  /\ UNCHANGED <<srv, timerJob, sigJob, exited, env, mru, ops>>

\* browser_action click / type (lines 839, 898-900, 1030-1036): getPage, then
\* performBrowserAction calls getPage again and waits for the selector.
\* valid: the selector (and the text of type) is given
StartAction(s, valid) ==
  /\ Begin(s, [IdleFrame EXCEPT !.tool = "browser_action", !.valid = valid,
                                !.pc = "gb", !.stack = <<"gp", "ba_go">>])
  /\ UNCHANGED <<browser, pages, activePageIndex, networkRequests, consoleMessages,
                 browserURL, pidFile, timerJob, sigJob, exited, env, mru>>

BaGo(s) ==
  LET f == calls[s] IN
  /\ f.pc = "ba_go"
  /\ Upd(s, CallGb(f, <<"gp", "ba_act">>))
  /\ UNCHANGED <<srv, timerJob, sigJob, exited, env, mru, ops>>

BaAct(s) ==
  LET f == calls[s] IN
  /\ f.pc = "ba_act"
  /\ mru' = IF f.pg \in Range(pages) THEN f.pg ELSE mru
  /\ Upd(s, [f EXCEPT !.pc = "ba_wait"])
  /\ UNCHANGED <<srv, timerJob, sigJob, exited, env, ops>>

\* waitForSelector and the action resolve (found), or reject: no selector, the
\* element never appears, the tab is gone
BaDone(s, found) ==
  LET f == calls[s] IN
  /\ f.pc = "ba_wait" /\ ~Busy
  /\ found => f.valid /\ f.pg \in open
  /\ Upd(s, IF found THEN Done(f, "ok") ELSE Throw(f))
  /\ UNCHANGED <<srv, timerJob, sigJob, exited, env, mru, ops>>

\* the click resolves and the page follows a link: a top-level navigation of the
\* tab begins; performBrowserAction (line 1035) returns 'Clicked'
BaNavigated(s) ==
  LET f == calls[s] IN
  /\ f.pc = "ba_wait" /\ ~Busy
  /\ f.valid /\ f.pg \in open
  /\ Upd(s, Done([f EXCEPT !.nav = NavOf(f.pg, consoleMessages, networkRequests)], "ok"))
  /\ UNCHANGED <<srv, timerJob, sigJob, exited, env, mru, ops>>

\* ---- events from the browser ----

\* tabs whose events the model delivers: the first and the active one
Watched ==
  {pages[i] : i \in {1, activePageIndex + 1} \cap (1..Len(pages))}

\* a tab closes by itself (the user closes it in an attached browser, window.close(),
\* the target is destroyed): its 'close' listener runs if setupPage registered one
PageClosed(t) ==
  /\ ~Busy
  /\ t \in Watched \cap open
  /\ ops < MaxStimuli
  /\ ops' = ops + 1
  /\ open' = open \ {t}
  /\ IF t \in hooked
     THEN OnClose(t)
     ELSE UNCHANGED <<consoleMessages, networkRequests, pages, activePageIndex>>
  /\ mru' = IF mru = t THEN 0 ELSE mru
  /\ UNCHANGED <<content, browser, browserURL, timer, pidFile, calls, timerJob, sigJob,
                 exited, alive, launched, owner, hooked, nextTab, nextBrowser>>

\* the 'console' listener (lines 345-349) for tab t; the listener of a tab whose
\* buffer is gone pushes to a temporary array (|| [])
ConsoleEvent(t, perBuf, side) ==
  /\ ~Busy
  /\ t \in hooked
  /\ IF t \in DOMAIN consoleMessages
     THEN /\ t \in Watched
          /\ NextEvent(consoleMessages[t]) <= perBuf
          /\ Buffered - Len(consoleMessages[t]) <= side
          /\ consoleMessages' = Recorded(consoleMessages, t)
     ELSE /\ t = CHOOSE x \in hooked : x \notin DOMAIN consoleMessages
          /\ UNCHANGED consoleMessages
  /\ UNCHANGED <<browser, pages, activePageIndex, networkRequests, browserURL,
                 timer, pidFile, calls, timerJob, sigJob, exited, env, mru, ops>>

\* the 'request' listener (lines 351-355) for tab t
RequestEvent(t, perBuf, side) ==
  /\ ~Busy
  /\ t \in hooked
  /\ IF t \in DOMAIN networkRequests
     THEN /\ t \in Watched
          /\ NextEvent(networkRequests[t]) <= perBuf
          /\ Buffered - Len(networkRequests[t]) <= side
          /\ networkRequests' = Recorded(networkRequests, t)
     ELSE /\ t = CHOOSE x \in hooked : x \notin DOMAIN networkRequests
          /\ UNCHANGED networkRequests
  /\ UNCHANGED <<browser, pages, activePageIndex, consoleMessages, browserURL,
                 timer, pidFile, calls, timerJob, sigJob, exited, env, mru, ops>>

\* ---- the idle timer (index.ts:292-305) ----

\* the callback runs: if a session exists it starts closing the browser.  quiet
\* restricts it to moments when no call is in flight.
MarkInFlight ==
  [s \in Slots |-> IF InFlight(s) THEN [calls[s] EXCEPT !.inflightTeardown = TRUE]
                   ELSE calls[s]]
TimerFire(quiet) ==
  /\ ~Busy
  /\ idleTimer = "pending"
  /\ timerJob.pc = "idle"
  /\ quiet => \A s \in Slots : Free(s)
  /\ timers # <<>>
  /\ timers' = Tail(timers)       \* the oldest pending timeout is due first
  /\ idleTimer' = IF Len(timers) = 1 THEN "fired" ELSE idleTimer
  /\ IF browser # 0
     THEN /\ timerJob' = [pc |-> "closing", br |-> browser]
          /\ calls' = MarkInFlight
     ELSE UNCHANGED <<timerJob, calls>>
  /\ UNCHANGED <<browser, pages, activePageIndex, networkRequests, consoleMessages,
                 browserURL, pidFile, sigJob, exited, env, mru, ops>>

\* lines 297-302: the close resolved: the session and all tab/buffer state go
TimerClosed(quiet) ==
  /\ ~Busy
  /\ timerJob.pc = "closing"
  /\ quiet => \A s \in Slots : Free(s)
  /\ Stopped(timerJob.br)
  /\ Teardown
  /\ timerJob' = [pc |-> "idle", br |-> 0]
  /\ calls' = MarkInFlight
  /\ mru' = 0
  /\ UNCHANGED <<content, browserURL, timer, pidFile, sigJob, exited, launched, owner,
                 hooked, nextTab, nextBrowser, ops>>

\* ---- SIGINT / SIGTERM / stdin close (index.ts:96-104) ----
Signal ==
  /\ ~Busy
  /\ sigJob.pc = "none"
  /\ IF browser # 0
     THEN /\ sigJob' = [pc |-> "closing", br |-> browser]
          /\ UNCHANGED exited
     ELSE /\ sigJob' = [pc |-> "done", br |-> 0]
          /\ exited' = TRUE
  /\ UNCHANGED <<srv, calls, timerJob, env, mru, ops>>

SigClosed ==
  /\ ~Busy
  /\ sigJob.pc = "closing"
  /\ Stopped(sigJob.br)
  /\ sigJob' = [pc |-> "done", br |-> 0]
  /\ exited' = TRUE
  /\ UNCHANGED <<content, srv, calls, timerJob, launched, owner, hooked, nextTab, nextBrowser,
                 mru, ops>>

\* ---- the document of a tab and getAccessibilityTree (index.ts:370-466) ----
\* A document has up to four elements of a fixed shape: the body, a container in
\* the body, an element in the container, and a second child of the body.  The
\* numbers of the elements are their document order.
Elements == 1..4
Body == 1
Parent == <<0, 1, 2, 1>>
ChildSeq(e) == SeqOfSet({c \in Elements : Parent[c] = e})
RECURSIVE Ancestors(_)
Ancestors(e) == IF e = Body THEN {} ELSE {Parent[e]} \cup Ancestors(Parent[e])

\* strings are sequences of characters
Space == " "
Newline == "nl"
NoText == <<>>
Submit == <<"S", "u", "b", "m", "i", "t">>
LongText == [i \in 1..(NAME_CUT + 1) |-> "x"]
SpacedText == <<Space, "k", Space>>
BlankText == <<Space>>
TwoLines == <<"a", Newline, "b">>
Texts == {NoText, Submit, LongText, SpacedText, BlankText, TwoLines}
Labels == {NoText, <<"A">>}

\* an element: attached to the document (on); its tag; hidden, the outcome of the
\* computed-style test of line 396; inView, the outcome of the bounding-rect test of
\* lines 399-405; its own text; its aria-label, placeholder and alt attributes; its
\* data-mcp-ref attribute (0: none).  No element carries a role attribute.
Element(tag, text, aria, ph, alt) ==
  [on |-> TRUE, tag |-> tag, hidden |-> FALSE, inView |-> TRUE, text |-> text,
   aria |-> aria, placeholder |-> ph, alt |-> alt, ref |-> 0]
Plain(tag) == Element(tag, NoText, NoText, NoText, NoText)
Absent == [Plain("div") EXCEPT !.on = FALSE]

\* the documents a navigation loads: a button alone in the body ("single"), a
\* button in a container ("nested"), or either with the other elements around it;
\* the body of a tall document reaches below the viewport and fails the test of
\* lines 400-405
Shapes == {"single", "nested", "full"}
Loaded(shape, b, tall) ==
  <<[Plain("body") EXCEPT !.inView = ~tall],
    IF shape = "single" THEN Absent ELSE Plain("div"),
    IF shape = "single" THEN Absent ELSE b,
    IF shape = "nested" THEN Absent ELSE IF shape = "single" THEN b ELSE Plain("p")>>

\* the element is in the document: it and all its ancestors are attached
InDocument(els, e) == \A x \in {e} \cup Ancestors(e) : els[x].on
\* buildTree reaches the element: it is in the document and neither it nor an
\* ancestor fails the style test of line 396
VisitedOwnStyle(els, e) == InDocument(els, e) /\ ~els[e].hidden
Visited(els, e) ==
  InDocument(els, e) /\ \A x \in {e} \cup Ancestors(e) : ~els[x].hidden

\* getRole (lines 373-392)
GetRoleGeneric(tag) == "generic"
GetRole(tag) ==
  CASE tag = "a" -> "link"
    [] tag = "button" -> "button"
    [] tag = "p" -> "paragraph"
    [] tag = "img" -> "img"
    [] tag = "input" -> "textbox"
    [] OTHER -> "generic"

\* el.innerText: the element's own text and the texts of its rendered children,
\* one block per line
RECURSIVE JoinLines(_)
JoinLines(blocks) ==
  IF blocks = <<>> THEN <<>>
  ELSE IF Len(blocks) = 1 THEN Head(blocks)
  ELSE Head(blocks) \o <<Newline>> \o JoinLines(Tail(blocks))
RECURSIVE InnerText(_, _)
InnerText(els, e) ==
  LET kids == SelectSeq(ChildSeq(e), LAMBDA c : els[c].on /\ ~els[c].hidden)
      blocks == <<els[e].text>> \o [i \in 1..Len(kids) |-> InnerText(els, kids[i])]
  IN JoinLines(SelectSeq(blocks, LAMBDA b : b # <<>>))

\* line 417: split('\n')[0], substring(0, 60), trim()
RECURSIVE FirstLine(_)
FirstLine(q) ==
  IF q = <<>> \/ Head(q) = Newline THEN <<>> ELSE <<Head(q)>> \o FirstLine(Tail(q))
Substring(q, n) == SubSeq(q, 1, IF Len(q) < n THEN Len(q) ELSE n)
RECURSIVE TrimStart(_)
TrimStart(q) == IF q # <<>> /\ Head(q) = Space THEN TrimStart(Tail(q)) ELSE q
RECURSIVE TrimEnd(_)
TrimEnd(q) ==
  IF q # <<>> /\ Last(q) = Space THEN TrimEnd(SubSeq(q, 1, Len(q) - 1)) ELSE q
Trim(q) == TrimEnd(TrimStart(q))
TextName(els, e) == Trim(Substring(FirstLine(InnerText(els, e)), NAME_CUT))

\* the first string of the list that is not empty, or the empty string
RECURSIVE FirstNonEmpty(_)
FirstNonEmpty(qs) ==
  IF qs = <<>> THEN <<>>
  ELSE IF Head(qs) # <<>> THEN Head(qs) ELSE FirstNonEmpty(Tail(qs))

\* line 417: node.name
NodeName(els, e) ==
  FirstNonEmpty(<<TextName(els, e), els[e].aria, els[e].placeholder, els[e].alt>>)

\* line 411: 'e' + (count++), in the order buildTree reaches the elements
RefOf(els, e) == Cardinality({x \in Elements : x <= e /\ Visited(els, x)})

\* buildTree (lines 394-433): the nodes of the elements it reaches
BuildTree(els) ==
  [e \in {x \in Elements : Visited(els, x)} |->
     [el |-> e, role |-> GetRole(els[e].tag), ref |-> RefOf(els, e),
      name |-> NodeName(els, e), visible |-> els[e].inView]]
\* line 412: the refs are written to the elements
Stamped(els) ==
  [e \in Elements |-> IF Visited(els, e) THEN [els[e] EXCEPT !.ref = RefOf(els, e)]
                      ELSE els[e]]

\* formatNode (lines 438-463): the outline, one line per node it prints
NodeChildren(tree, e) == SelectSeq(ChildSeq(e), LAMBDA c : c \in DOMAIN tree)
VisibleChildren(tree, e) ==
  SelectSeq(NodeChildren(tree, e),
            LAMBDA c : tree[c].visible \/ NodeChildren(tree, c) # <<>>)
RECURSIVE Flatten(_)
Flatten(qs) == IF qs = <<>> THEN <<>> ELSE Head(qs) \o Flatten(Tail(qs))
RECURSIVE FormatNode(_, _, _)
FormatNode(tree, e, depth) ==
  LET kids == VisibleChildren(tree, e)
      line == [el |-> e, depth |-> depth, role |-> tree[e].role,
               name |-> tree[e].name, ref |-> tree[e].ref]
  IN IF ~tree[e].visible /\ kids = <<>> THEN <<>>
     ELSE <<line>> \o Flatten([i \in 1..Len(kids) |->
                                FormatNode(tree, kids[i], depth + 1)])

\* the outline getAccessibilityTree returns for the document (line 435, 465)
Outline(els) == FormatNode(BuildTree(els), Body, 0)

server == <<srv, calls, timerJob, sigJob, exited, alive, launched, open, owner, hooked,
            nextTab, nextBrowser, mru, ops>>

\* a navigation has loaded a document whose button has the given text and attributes
Load(shape, text, aria, ph, alt, tall) ==
  /\ ~document.loaded
  /\ document' = [loaded |-> TRUE,
                  els |-> Loaded(shape, Element("button", text, aria, ph, alt), tall),
                  edits |-> 0, fresh |-> FALSE, snaps |-> <<>>]
  /\ UNCHANGED <<server, html, shots>>

Edited(els) ==
  [document EXCEPT !.els = els, !.edits = @ + 1, !.fresh = FALSE]
\* a script inserts or removes an element with its subtree
Toggle(e) ==
  /\ document.loaded /\ document.edits < MaxEdits
  /\ e # Body
  /\ document' = Edited([document.els EXCEPT ![e].on = ~@])
  /\ UNCHANGED <<server, html, shots>>
\* the style of an element changes: it fails, or passes again, the test of line 396
Restyle(e) ==
  /\ document.loaded /\ document.edits < MaxEdits
  /\ document.els[e].on
  /\ document' = Edited([document.els EXCEPT ![e].hidden = ~@])
  /\ UNCHANGED <<server, html, shots>>
\* the element moves out of the viewport, or into it
Scroll(e) ==
  /\ document.loaded /\ document.edits < MaxEdits
  /\ document.els[e].on
  /\ document' = Edited([document.els EXCEPT ![e].inView = ~@])
  /\ UNCHANGED <<server, html, shots>>

\* getAccessibilityTree: the refs are stamped on the elements and the outline is
\* returned; the outlines of the last two snapshots are remembered.  When the body
\* fails the style test buildTree returns null, formatNode(null) throws and no
\* outline is returned
GetAccessibilityTree ==
  /\ document.loaded
  /\ document' = IF Visited(document.els, Body)
                 THEN [document EXCEPT
                         !.els = Stamped(@), !.fresh = TRUE,
                         !.snaps = (IF Len(@) = 2 THEN Tail(@) ELSE @)
                                   \o <<Outline(document.els)>>]
                 ELSE document
  /\ UNCHANGED <<server, html, shots>>

\* ---- browser_snapshot, mode html (src/unnamed/part_003:1637-1665) ----
\* The markup of a page is a string of the given length; its characters differ
\* from their neighbours.  Numbers in the arguments are given in halves, so that
\* 2 * n is the integer n and 2 * n + 1 lies between n and n + 1.
Min(a, b) == IF a <= b THEN a ELSE b
Half(n) == 2 * n
Floor(h) == h \div 2
Lengths == {0, 1, 1000, DEFAULT_SLICE, DEFAULT_SLICE + 1}
Markup(len) == [i \in 1..len |-> i % 7]

\* String.prototype.slice: negative indexes count from the end, indexes are
\* clamped to the string, an empty range gives the empty string
SliceIndex(q, i) == IF i < 0 THEN Max(Len(q) + i, 0) ELSE Min(i, Len(q))
StringSliceInclusive(q, from, to) ==
  SubSeq(q, SliceIndex(q, from) + 1, Min(SliceIndex(q, to) + 1, Len(q)))
StringSlice(q, from, to) ==
  IF SliceIndex(q, from) >= SliceIndex(q, to) THEN <<>>
  ELSE SubSeq(q, SliceIndex(q, from) + 1, SliceIndex(q, to))

\* line 1638: startIndex = 0 when left out; lines 1641-1643
Args(hasStart, startIndex, hasEnd, endIndex) ==
  [hasStart |-> hasStart, startIndex |-> IF hasStart THEN startIndex ELSE 0,
   hasEnd |-> hasEnd, endIndex |-> IF hasEnd THEN endIndex ELSE 0]
StartIndex(a) == IF a.hasStart THEN a.startIndex ELSE Half(0)
SafeStart(a) == Max(0, Floor(StartIndex(a)))
DefaultEnd(a) == SafeStart(a) + DEFAULT_SLICE
SafeEndUnclamped(text, a) == IF a.hasEnd THEN Floor(a.endIndex) ELSE DefaultEnd(a)
SafeEnd(text, a) ==
  Min(Len(text), IF a.hasEnd THEN Floor(a.endIndex) ELSE DefaultEnd(a))
\* lines 1644-1664: the reply
SnapshotHtml(text, a) ==
  [set |-> TRUE, totalLength |-> Len(text), startIndex |-> SafeStart(a),
   endIndex |-> SafeEnd(text, a),
   remainingCharacters |-> Max(0, Len(text) - SafeEnd(text, a)),
   content |-> StringSlice(text, SafeStart(a), SafeEnd(text, a))]

\* a navigation has loaded a page with markup of the given length
LoadHtml(len) ==
  /\ ~html.loaded
  /\ html' = [NoHtml EXCEPT !.loaded = TRUE, !.text = Markup(len)]
  /\ UNCHANGED <<server, document, shots>>

\* one browser_snapshot call in mode html
StartArgs == {Half(0 - 1), Half(0), Half(0) + 1, Half(100), Half(900), Half(1000), Half(1005)}
EndArgs ==
  {Half(0 - 5), Half(0), Half(100), Half(100) + 1, Half(900), Half(2000),
   Half(DEFAULT_SLICE + 5)}
Requests ==
  {Args(hs, st, he, en) : hs \in BOOLEAN, st \in StartArgs, he \in BOOLEAN, en \in EndArgs}
RequestHtml(a) ==
  /\ html.loaded /\ html.paging = "no"
  /\ html' = [html EXCEPT !.args = a, !.reply = SnapshotHtml(html.text, a),
                          !.paging = "no", !.got = <<>>]
  /\ UNCHANGED <<server, document, shots>>

\* a caller reads the page slice by slice: the first call asks from 0, every
\* further call from the endIndex of the reply before; a call names no endIndex
\* or asks for PageSize characters; the caller stops when nothing remains
PageArgs(from, sized) == Args(TRUE, Half(from), sized, Half(from + PageSize))
Paged(a) ==
  LET r == SnapshotHtml(html.text, a)
  IN [html EXCEPT !.args = a, !.reply = r, !.got = @ \o r.content,
                  !.paging = IF r.remainingCharacters = 0 THEN "done" ELSE "on"]
PageFirst(sized) ==
  /\ html.loaded /\ html.paging = "no"
  /\ html' = Paged(PageArgs(0, sized))
  /\ UNCHANGED <<server, document, shots>>
PageNext(sized) ==
  /\ html.paging = "on"
  /\ html' = Paged(PageArgs(html.reply.endIndex, sized))
  /\ UNCHANGED <<server, document, shots>>

\* ---- screenshot files (index.ts:107-132, 1044-1096) ----
\* Time is counted in days.  A file is the number of the call that wrote it, its
\* directory and its age, now - mtime.

SCREENSHOT_DIR == "screenshots"
\* destinationFolder as given by the caller: left out, a path that resolves to
\* SCREENSHOT_DIR, or another directory
Destinations == {"none", SCREENSHOT_DIR, "custom"}
\* lines 1047-1053: destDir
DestDir(dest) == IF dest = "none" THEN SCREENSHOT_DIR ELSE dest

\* cleanupDir (lines 111-121): unlink every file of dir whose age exceeds expiryMs
Expired(f) == f.age > EXPIRY_DAYS
CleanupDir(files, dir) == {f \in files : ~(f.dir = dir /\ Expired(f))}
\* cleanupOldFiles (lines 107-132): the default directory, then every directory of
\* customScreenshotDirs
SweptDirs(sh) == {SCREENSHOT_DIR} \cup sh.customScreenshotDirs
CleanupOldFiles(sh) ==
  [sh EXCEPT !.files = {f \in @ : \A dir \in SweptDirs(sh) : f \in CleanupDir(sh.files, dir)}]

\* takeScreenshot (lines 1044-1096), with a page at hand: the directory is tracked
\* if it is not the default one (lines 1082-1085), then page.screenshot writes the
\* file, or rejects (written = FALSE)
TakeScreenshot(dest, written) ==
  LET dir == DestDir(dest) IN
  /\ shots.taken < MaxShots
  /\ shots' = [shots EXCEPT
        !.taken = @ + 1,
        !.customScreenshotDirs = IF dir # SCREENSHOT_DIR THEN @ \cup {dir} ELSE @,
        !.files = IF written
                  THEN @ \cup {[id |-> shots.taken + 1, dir |-> dir, age |-> 0]}
                  ELSE @]
  /\ UNCHANGED <<server, document, html>>

\* a day passes: every file is a day older (ages from MaxDay on are not told apart)
Tick ==
  /\ shots' = [shots EXCEPT
        !.day = 1 - @,
        !.files = {[f EXCEPT !.age = Min(@ + 1, MaxDay)] : f \in @}]
  /\ UNCHANGED <<server, document, html>>

\* the server process is started anew: a new WebCurlServer, whose
\* customScreenshotDirs is empty and whose constructor calls cleanupOldFiles
\* (index.ts:90), the only call of it
Construct ==
  /\ shots.customScreenshotDirs # {} \/ \E f \in shots.files : Expired(f)
  /\ shots' = CleanupOldFiles([shots EXCEPT !.customScreenshotDirs = {}])
  /\ UNCHANGED <<server, document, html>>

\* ---- the specifications ----
Gone == {"throw", "noop"}

\* the steps of getBrowser, getPage and createNewPage in slot s; counts are the
\* page counts of the browser an attach may find
SessionSteps(s, counts) ==
  \/ GbEnter(s)
  \/ \E k \in counts : GbConnected(s, k)
  \/ GbPages(s)
  \/ GbSetup(s)
  \/ \E spawn \in BOOLEAN : GbLaunch(s, spawn)
  \/ GbLaunched(s)
  \/ GetPage(s)
  \/ \E g \in Gone : CnpLoop(s, g)
  \/ CnpClosed(s)
  \/ \E ok \in BOOLEAN : CnpCloseLate(s, ok)
  \/ CnpCreated(s)
  \/ CnpRet(s)
  \/ CnpFailed(s)
  \/ Respond(s)

\* the steps of browser_tabs new, browser_navigate and browser_close
CoreSteps(s) ==
  \/ \E g \in Gone : TabsGo(s, g)
  \/ TabsNewRet(s)
  \/ NavGo(s)
  \/ NavLoaded(s)
  \/ NavSettled(s)
  \/ BcClosed(s)

\* the steps of the other tools
OtherSteps(s) ==
  \/ GbConnFailed1(s)
  \/ CnpSpin(s)
  \/ TabsListed(s)
  \/ TabsClosed(s)
  \/ \E ok \in BOOLEAN : TabsCloseLate(s, ok)
  \/ \E notify \in BOOLEAN : ConnClosed(s, notify)
  \/ ConnRet(s)
  \/ BnLoop(s)
  \/ BnCreated(s)
  \/ BnLoaded(s)
  \/ BnSettled(s)
  \/ PtGo(s)
  \/ PtDone(s)

\* a tool call arrives in slot s
Start(s) ==
  \/ \E a \in TabActions, i \in IndexInputs : StartTabs(s, a, i)
  \/ StartClose(s)
  \/ StartConnect(s)
  \/ \E u \in Urls : StartNavigate(s, u)
  \/ \E us \in UrlLists : StartBatch(s, us)
  \/ \E tool \in PageTools : StartPageTool(s, tool)

\* page counts of the browser an attach finds
ExtPageCounts == {0, 2, MAX_TABS - 1, MAX_TABS + 1}

\* SpecSeq: tool calls do not overlap, and the idle timer runs between calls
NextSeq ==
  \/ Start(1)
  \/ SessionSteps(1, ExtPageCounts)
  \/ CoreSteps(1)
  \/ OtherSteps(1)
  \/ \E t \in open : PageClosed(t)
  \/ TimerFire(TRUE)
  \/ TimerClosed(TRUE)
SpecSeq == Init /\ [][NextSeq]_vars

\* Spec: two calls may overlap at their awaits.  The second slot is taken only
\* while the first is in use.
OverlapPageCounts == {0, MAX_TABS}
StartOverlap(s) ==
  /\ s = 2 => InFlight(1)
  /\ ops < MaxShort
  /\ \/ StartTabs(s, "new", NoIdx)
     \/ StartNavigate(s, "ok")
     \/ StartClose(s)
Next ==
  \/ \E s \in Slots : StartOverlap(s)
  \/ \E s \in Slots : SessionSteps(s, OverlapPageCounts)
  \/ \E s \in Slots : GbReconnected(s)
  \/ \E s \in Slots : CoreSteps(s)
Spec == Init /\ [][Next]_vars

\* SpecAsync: calls do not overlap, but the idle timer fires whenever its window
\* has passed, also during a call, and a termination signal may arrive; nothing
\* runs after the exit
NextAsync ==
  \/ ~exited /\ StartOverlap(1)
  \/ ~exited /\ SessionSteps(1, OverlapPageCounts)
  \/ ~exited /\ CoreSteps(1)
  \/ ~exited /\ TimerFire(FALSE)
  \/ ~exited /\ TimerClosed(FALSE)
  \/ ~exited /\ Signal
  \/ ~exited /\ SigClosed
SpecAsync == Init /\ [][NextAsync]_vars

\* SpecBuf: calls do not overlap; the tabs deliver console and request events and
\* may close by themselves
NextBuf ==
  \/ StartOverlap(1)
  \/ SessionSteps(1, OverlapPageCounts)
  \/ CoreSteps(1)
  \/ \E t \in hooked : ConsoleEvent(t, MaxEvents, SideEvents)
  \/ \E t \in hooked : RequestEvent(t, MaxEvents, SideEvents)
  \/ \E t \in open : PageClosed(t)
SpecBuf == Init /\ [][NextBuf]_vars

\* SpecPool: calls that open tabs, one at a time, on a pool at the limit whose
\* tabs may close by themselves; every pending step of a call eventually happens
PoolSteps(s) ==
  \/ SessionSteps(s, OverlapPageCounts)
  \/ CoreSteps(s)
  \/ CnpSpin(s)
NextPool ==
  \/ StartOverlap(1)
  \/ PoolSteps(1)
  \/ \E t \in open : PageClosed(t)
SpecPool == Init /\ [][NextPool]_vars /\ WF_vars(PoolSteps(1))

\* SpecTools: calls of every tool, one after the other, on a browser whose tabs
\* stay open unless a call closes them; every step of a call that is pending
\* eventually happens
StartTools(s) ==
  /\ ops < MaxShort
  /\ \/ \E a \in TabActions, i \in IndexInputs : StartTabs(s, a, i)
     \/ StartClose(s)
     \/ \E u \in Urls : StartNavigate(s, u)
     \/ \E us \in UrlLists : StartBatch(s, us)
     \/ \E qs \in QueryLists, keys \in BOOLEAN : StartSearch(s, qs, keys)
     \/ \E tool \in PlainTools, valid \in BOOLEAN : StartPlain(s, tool, valid)
     \/ \E valid \in BOOLEAN : StartAction(s, valid)
     \/ \E tool \in PageTools : StartPageTool(s, tool)
ToolsSteps(s) ==
  \/ GbEnter(s)
  \/ \E k \in OverlapPageCounts : GbConnected(s, k)
  \/ GbPages(s)
  \/ GbSetup(s)
  \/ \E spawn \in BOOLEAN : GbLaunch(s, spawn)
  \/ GbLaunched(s)
  \/ GetPage(s)
  \/ \E g \in Gone : CnpLoop(s, g)
  \/ CnpClosed(s)
  \/ CnpCreated(s)
  \/ CnpRet(s)
  \/ CnpFailed(s)
  \/ Respond(s)
  \/ CoreSteps(s)
  \/ TabsListed(s)
  \/ TabsClosed(s)
  \/ BnLoop(s)
  \/ BnCreated(s)
  \/ BnLoaded(s)
  \/ BnSettled(s)
  \/ MsGo(s)
  \/ \E i \in 1..MaxQueries : MsSettled(s, i)
  \/ MsAll(s)
  \/ PlGo(s)
  \/ \E ok \in BOOLEAN : PlDone(s, ok)
  \/ BaGo(s)
  \/ BaAct(s)
  \/ \E found \in BOOLEAN : BaDone(s, found)
  \/ PtGo(s)
  \/ PtDone(s)
NextTools ==
  \/ StartTools(1)
  \/ ToolsSteps(1)
SpecTools == Init /\ [][NextTools]_vars /\ WF_vars(ToolsSteps(1))

\* SpecTree: a document is loaded, changes, and snapshots are taken of it
NextTree ==
  \/ \E shape \in Shapes, text \in Texts, aria \in Labels, ph \in Labels, alt \in Labels,
        tall \in BOOLEAN :
       Load(shape, text, aria, ph, alt, tall)
  \/ \E e \in Elements : Toggle(e)
  \/ \E e \in Elements : Restyle(e)
  \/ \E e \in Elements : Scroll(e)
  \/ GetAccessibilityTree
SpecTree == Init /\ [][NextTree]_vars

\* SpecNav: calls that navigate a tab (browser_navigate, a click on a link), one at
\* a time, while the tabs report console messages and requests
StartNav(s) ==
  /\ ops < MaxShort
  /\ \/ \E u \in Urls : StartNavigate(s, u)
     \/ StartAction(s, TRUE)
NextNav ==
  \/ StartNav(1)
  \/ GbEnter(1)
  \/ GbConnected(1, 0)
  \/ GbPages(1)
  \/ GbSetup(1)
  \/ \E spawn \in BOOLEAN : GbLaunch(1, spawn)
  \/ GbLaunched(1)
  \/ GetPage(1)
  \/ CnpLoop(1, "throw")
  \/ CnpCreated(1)
  \/ CnpRet(1)
  \/ CnpFailed(1)
  \/ Respond(1)
  \/ NavGo(1)
  \/ NavLoaded(1)
  \/ NavSettled(1)
  \/ BaGo(1)
  \/ BaAct(1)
  \/ \E found \in BOOLEAN : BaDone(1, found)
  \/ BaNavigated(1)
  \/ \E t \in hooked : ConsoleEvent(t, NavEvents, NavEvents)
  \/ \E t \in hooked : RequestEvent(t, NavEvents, NavEvents)
SpecNav == Init /\ [][NextNav]_vars

\* SpecSlice: a page is loaded and its markup is read in slices, by single calls
\* and by a caller that pages through it; every call of the paging caller is
\* answered
Paging == \E sized \in BOOLEAN : PageNext(sized)
NextSlice ==
  \/ \E len \in Lengths : LoadHtml(len)
  \/ \E a \in Requests : RequestHtml(a)
  \/ \E sized \in BOOLEAN : PageFirst(sized)
  \/ Paging
SpecSlice == Init /\ [][NextSlice]_vars /\ WF_vars(Paging)

\* SpecFiles: screenshots are written to the default and to a custom directory while
\* the days pass, and the server may be started again.  The clock does not stop.
NextFiles ==
  \/ \E dest \in Destinations, written \in BOOLEAN : TakeScreenshot(dest, written)
  \/ Tick
  \/ Construct
SpecFiles == Init /\ [][NextFiles]_vars /\ WF_vars(Tick)

\* ---- the tab pool ----

\* C1: in every reachable state of non-overlapping calls, tab closes and session
\* creations, the tab list holds at most MAX_TABS tabs.
C1_PoolWithinMaxTabs == Len(pages) <= MAX_TABS

\* the record of what createNewPage just did, in any slot
CnpEvents == {calls[s].ev : s \in Slots}

\* C2: each time createNewPage finds the pool at the limit, the one tab it closes
\* and removes is the tab at position 0, whichever tab is active or was used last,
\* and the other tabs keep their order; the new tab is appended last and nothing
\* else moves.
C2_EvictsPositionZero ==
  \A e \in CnpEvents :
    /\ e.kind = "evict" => e.tab = e.pre[1] /\ pages = Tail(e.pre)
    /\ e.kind = "push" => pages = Append(e.pre, e.tab) /\ e.tab \notin Range(e.pre)

\* a run of createNewPage that found MAX_TABS tabs, one of them active and used
\* last, has closed one tab and appended the new one
C2_Witness ==
  \E e \in CnpEvents :
    /\ e.kind = "push" /\ e.len0 = MAX_TABS /\ e.n = 1
    /\ Len(pages) = MAX_TABS
    /\ activePageIndex > 0

WellKept(buf) ==
  /\ Len(buf) <= BUFFER_CAP
  /\ \A i \in 1..(Len(buf) - 1) : buf[i + 1] = buf[i] + 1
  /\ buf # <<>> => buf[1] = Max(1, Last(buf) - BUFFER_CAP + 1)

\* C4: no buffer of either channel ever holds more than 100 entries, and each
\* holds the latest events in arrival order: once more than 100 have arrived,
\* exactly the 100 most recent.
C4_BuffersBounded ==
  /\ \A t \in DOMAIN consoleMessages : WellKept(consoleMessages[t])
  /\ \A t \in DOMAIN networkRequests : WellKept(networkRequests[t])

\* a console buffer that held 100 entries when the 101st event arrived, next to a
\* network buffer that is not empty
C4_Witness ==
  \E t \in DOMAIN consoleMessages, u \in DOMAIN networkRequests :
    /\ Len(consoleMessages[t]) = BUFFER_CAP /\ consoleMessages[t][1] = 2
    /\ networkRequests[u] # <<>>

\* tabs that were open once and are closed now
ClosedTabs == DOMAIN owner \ open
Quiet == \A s \in Slots : Free(s)

\* C5: once the call, if any, during which a tab closed is over, the closed tab
\* is not in the tab list and is not a key of either buffer map.
C5_ClosedTabsForgotten ==
  Quiet =>
    \A t \in ClosedTabs :
      /\ t \notin Range(pages)
      /\ t \notin DOMAIN consoleMessages
      /\ t \notin DOMAIN networkRequests

\* ---- the idle timer ----

\* C6: while a session exists and no call is in flight, the idle timer is pending
\* or its callback is already closing the browser, so that the session is closed
\* once the idle window has passed.
C6_IdleSessionIsReclaimed ==
  Quiet /\ browser # 0 /\ ~exited /\ sigJob.pc = "none" =>
    idleTimer = "pending" \/ timerJob.pc = "closing"

\* C7: the idle callback never closes the browser, and never discards the pool
\* and the buffers, while a tool call is in flight.
C7_NoTeardownInFlight ==
  \A s \in Slots : ~calls[s].inflightTeardown

\* ---- the browser processes ----

\* C8: at most one browser launched by this server is running at any time, also
\* when two calls are inside getBrowser together.
C8_OneLaunchedBrowser ==
  Cardinality(launched \cap alive) <= 1

\* C9: when the server has exited after SIGINT, SIGTERM or the close of stdin, no
\* browser it launched is still running.
C9_NoOrphanAtExit ==
  exited => launched \cap alive = {}

\* ---- batch_navigate ----

\* C10: a batch_navigate call always ends with a normal result that holds one
\* record per input URL in input order, an error record for every URL whose
\* navigation fails and a tab index in every success record.
C10_BatchIsolatesFailures ==
  \A s \in Slots :
    LET f == calls[s] IN
    f.tool = "batch_navigate" /\ f.pc = "done" =>
      /\ f.out = "ok"
      /\ Len(f.results) = Len(f.args)
      /\ \A i \in 1..Len(f.results) :
           /\ f.results[i].url = f.args[i]
           /\ f.args[i] = "bad" => f.results[i].status = "error"
           /\ f.results[i].status = "success" => f.results[i].tabIndex >= 0

\* ---- results and errors of tool calls ----

\* the calls that have ended and whose result is about to be handed over
Ended == {calls[s] : s \in {x \in Slots : calls[x].pc = "done"}}

\* C11: a multi_search call with the keys configured, made while a session and a
\* tab exist, has all its requests outstanding together before any is awaited,
\* and ends with a normal result of one slot per query in query order: a failed
\* query is marked in its own slot and the other slots carry their results.
C11_SearchIsolatesFailures ==
  \A s \in Slots :
    LET f == calls[s] IN
    f.tool = "multi_search" /\ f.valid /\ f.before.browser # 0 /\ f.before.pages # <<>> =>
      /\ f.pc = "ms_wait" =>
           \A i \in 1..Len(f.args) : i \in f.pending \/ f.results[i].query = i
      /\ f.pc = "done" =>
           /\ f.out = "ok"
           /\ Len(f.results) = Len(f.args)
           /\ \A i \in 1..Len(f.args) :
                /\ f.results[i].query = i
                /\ f.args[i] = "ok" => f.results[i].results = "items"
                /\ f.args[i] # "ok" => f.results[i].error

AsBefore(f) ==
  /\ browser = f.before.browser
  /\ pages = f.before.pages
  /\ activePageIndex = f.before.active
  /\ DOMAIN networkRequests = f.before.netKeys
  /\ DOMAIN consoleMessages = f.before.conKeys

\* arguments that are bad whatever the state: a negative or (for select) missing
\* tab index, fetch_api arguments that fail the check, click or type without a
\* selector, multi_search without the keys
BadArgs(f) ==
  \/ f.tool = "browser_tabs" /\ f.act = "select" /\ (f.idx = NoIdx \/ f.idx < 0)
  \/ f.tool = "browser_tabs" /\ f.act = "close" /\ f.idx # NoIdx /\ f.idx < 0
  \/ f.tool \in {"fetch_api", "browser_action", "multi_search"} /\ ~f.valid

\* C13: a call with bad or missing arguments ends with an error result and has
\* touched nothing: no browser launched or attached, no tab created, the session,
\* the tab list, the active pointer and the buffer maps as before the call.
C13_RejectedBeforeBrowser ==
  \A f \in Ended : BadArgs(f) => f.out = "err" /\ AsBefore(f)

\* the call ended with an error result, or with a failed item in its batch
Failed(f) ==
  \/ f.out = "err"
  \/ \E i \in 1..Len(f.results) :
        f.tool = "batch_navigate" /\ f.results[i].status = "error"

\* C14: a call that ends with an error result, or with a failed batch item,
\* leaves the ordered tab list and the active pointer as they were before the
\* call, and every tab but the one it worked on keeps its buffers.
C14_ErrorsLeavePoolAlone ==
  \A f \in Ended :
    Failed(f) =>
      /\ pages = f.before.pages
      /\ activePageIndex = f.before.active
      /\ \A t \in Range(f.before.pages) :
           t # f.before.pages[f.before.active + 1] =>
             /\ t \in DOMAIN networkRequests <=> t \in f.before.netKeys
             /\ t \in DOMAIN consoleMessages <=> t \in f.before.conKeys

\* positions of a call that has just attached to a browser, started one, or
\* opened a tab
Creating == {"gb_pages", "gb_setup", "gb_launch", "cnp_ret"}
NoBrowserTools == {"browser_close", "multi_search"} \cup PlainTools

\* C15: a call of browser_close, multi_search, google_search, fetch_api,
\* smart_command, parse_document, download_file or of an unknown tool is never
\* at a point where it has attached to a browser, started one or opened a tab.
C15_OnlyBrowserToolsCreate ==
  \A s \in Slots :
    calls[s].tool \in NoBrowserTools => calls[s].pc \notin Creating

\* ---- teardown ----

\* the step leaves no session, an empty tab list, the pointer at 0 and both
\* buffer maps empty
LeavesNothing ==
  /\ browser' = 0
  /\ pages' = <<>>
  /\ activePageIndex' = 0
  /\ networkRequests' = EmptyMap
  /\ consoleMessages' = EmptyMap

Latest == document.snaps[Len(document.snaps)]
Taken == document.loaded /\ document.fresh
Printed(outline) == {outline[i].el : i \in 1..Len(outline)}

\* C17: an element that is printed in two snapshots of the same navigation has
\* the same ref in both, whatever was inserted, removed, hidden or shown between.
C17_RefsStable ==
  Len(document.snaps) = 2 =>
    \A i \in 1..Len(document.snaps[1]), j \in 1..Len(document.snaps[2]) :
      document.snaps[1][i].el = document.snaps[2][j].el =>
        document.snaps[1][i].ref = document.snaps[2][j].ref

\* the document consists of the body and one button labelled "Submit" that is
\* shown and in the viewport
SubmitPage ==
  /\ \E b \in Elements \ {Body} :
       /\ {e \in Elements : InDocument(document.els, e)} = {Body, b}
       /\ document.els[b].tag = "button" /\ document.els[b].text = Submit
       /\ document.els[b].aria = NoText
       /\ ~document.els[b].hidden /\ document.els[b].inView
  /\ ~document.els[Body].hidden

\* C18 as stated: the snapshot of such a document is an outline of exactly one
\* node, of role button, name "Submit" and a ref.
C18_ExactlyOneNode ==
  Taken /\ SubmitPage =>
    /\ Len(Latest) = 1
    /\ Latest[1].role = "button" /\ Latest[1].name = Submit /\ Latest[1].ref > 0

\* C18 amended: the outline has two nodes: the root node of the body (role
\* generic, named by the body's inner text "Submit", ref 1) and under it exactly
\* one node, of role button, name "Submit" and ref 2.
C18_RootThenButton ==
  Taken /\ SubmitPage =>
    /\ Len(Latest) = 2
    /\ Latest[1].el = Body /\ Latest[1].depth = 0 /\ Latest[1].role = "generic"
    /\ Latest[1].name = Submit /\ Latest[1].ref = 1
    /\ Latest[2].depth = 1 /\ Latest[2].role = "button"
    /\ Latest[2].name = Submit /\ Latest[2].ref = 2

\* a snapshot was taken of a document of the body and one "Submit" button
C18_Witness == Taken /\ SubmitPage /\ Len(Latest) > 0

\* C19: the name of every printed node is the first non-empty one of: the
\* aria-label, the trimmed first line of the inner text cut to 60 characters, the
\* placeholder, the alt text.
C19_AriaLabelFirst ==
  Taken =>
    \A i \in 1..Len(Latest) :
      LET e == Latest[i].el IN
      Latest[i].name =
        FirstNonEmpty(<<document.els[e].aria, TextName(document.els, e),
                        document.els[e].placeholder, document.els[e].alt>>)

\* C20: every element of the document that passes the style test and is in the
\* viewport is printed, also when all its ancestors are outside the viewport; and
\* of the nodes buildTree returns, none that is in the viewport or has a
\* descendant in the viewport is pruned from the outline.
C20_InViewportIsPrinted ==
  Taken =>
    /\ \A e \in Elements :
         InDocument(document.els, e) /\ ~document.els[e].hidden /\ document.els[e].inView
           => e \in Printed(Latest)
    /\ \A e \in Elements :
         /\ Visited(document.els, e)
         /\ \E d \in Elements :
              /\ Visited(document.els, d) /\ document.els[d].inView
              /\ d = e \/ e \in Ancestors(d)
         => e \in Printed(Latest)

\* the element or one of its descendants in the document lies in the viewport
HasInView(els, e) ==
  \E d \in Elements :
    /\ d = e \/ e \in Ancestors(d)
    /\ InDocument(els, d) /\ els[d].inView

\* C21: the outline has no line for an element that is outside the viewport and
\* has no descendant in the viewport, at whatever depth the element is.
C21_NoLineWithoutInView ==
  Taken => \A e \in Printed(Latest) : HasInView(document.els, e)

\* ---- the HTML slices ----

\* the arguments of the latest call are integers with 0 <= startIndex <= endIndex
\* (a startIndex left out is 0, an endIndex left out is not constrained)
Whole(h) == h % 2 = 0
AskedFrom == IF html.args.hasStart THEN html.args.startIndex \div 2 ELSE 0
AskedTo == IF html.args.hasEnd THEN html.args.endIndex \div 2 ELSE AskedFrom + DEFAULT_SLICE
InOrder ==
  /\ html.reply.set
  /\ Whole(html.args.startIndex) /\ Whole(html.args.endIndex)
  /\ 0 <= AskedFrom /\ AskedFrom <= AskedTo
\* the characters [from, to) of the markup
Chars(from, to) == [i \in 1..Max(to - from, 0) |-> html.text[from + i]]

\* C22: for integers 0 <= startIndex <= endIndex and markup of length L the reply
\* holds the characters [startIndex, min(endIndex, L)), endIndex = min(endIndex, L),
\* totalLength = L and remainingCharacters = L - min(endIndex, L), an endIndex left
\* out counting as startIndex + 20000; for L = 1000, [0, 100) gives 100 characters
\* and 900 remaining, [900, 2000) at most 100 characters and 0 remaining.
C22_SliceIsExact ==
  InOrder =>
    LET L == Len(html.text)
        to == IF AskedTo <= L THEN AskedTo ELSE L
    IN /\ html.reply.content = Chars(AskedFrom, to)
       /\ html.reply.endIndex = to
       /\ html.reply.totalLength = L
       /\ html.reply.remainingCharacters = L - to
       /\ L = 1000 /\ AskedFrom = 0 /\ AskedTo = 100
            => Len(html.reply.content) = 100 /\ html.reply.remainingCharacters = 900
       /\ L = 1000 /\ AskedFrom = 900 /\ AskedTo = 2000
            => Len(html.reply.content) <= 100 /\ html.reply.remainingCharacters = 0

\* a call asked for [900, 2000) of markup of 1000 characters and got the last 100
C22_Witness ==
  /\ InOrder /\ Len(html.text) = 1000 /\ AskedFrom = 900 /\ AskedTo = 2000
  /\ Len(html.reply.content) = 100

\* C23: a caller that starts at 0 and asks again from the endIndex of each reply
\* until nothing remains comes to an end, and the contents it got, put together,
\* are the markup: no character missing, none repeated.
C23_PagingReadsAll ==
  /\ [](html.paging = "done" => html.got = html.text)
  /\ (html.paging = "on") ~> (html.paging = "done")

\* a caller has read markup longer than the default slice in more than one call
C23_Witness ==
  /\ html.paging = "done" /\ Len(html.text) > DEFAULT_SLICE
  /\ Len(html.got) > Len(html.reply.content)

\* ---- the active pointer ----

\* a step of browser_tabs close without an index picks the tab at the active pointer
ClosesActiveTab ==
  \A s \in Slots :
    /\ calls[s].pc = "tabs_go" /\ calls[s].act = "close" /\ calls[s].idx = NoIdx
    /\ calls'[s].pc = "tabs_close"
    => calls'[s].pg = pages[activePageIndex + 1]
\* a step removes tabs from the tab list and adds none
Shrinks == Range(pages') \subseteq Range(pages) /\ Range(pages') # Range(pages)
\* a step of getBrowser replaces the tab list by the tabs of the browser it attached to
Attaches == \E s \in Slots : calls[s].pc = "gb_pages" /\ calls'[s].pc = "gb_setup"

\* C24 as stated: browser_tabs close without an index closes the tab at the active
\* pointer, and after every step that removes a tab from the tab list the active
\* pointer is max(0, index of the last remaining tab).
C24_PointerMovesToLast ==
  [][/\ ClosesActiveTab
     /\ Shrinks => activePageIndex' = Max(0, Len(pages') - 1)]_vars

\* C24 amended: browser_tabs close without an index closes the tab at the active
\* pointer; a step in which tabs leave the tab list by their close events or by a
\* teardown leaves the active pointer as it was when it is still below the number
\* of remaining tabs, and otherwise sets it to max(0, index of the last remaining
\* tab).
C24_PointerIsClamped ==
  [][/\ ClosesActiveTab
     /\ Shrinks /\ ~Attaches
          => activePageIndex' = IF activePageIndex >= Len(pages')
                                      THEN Max(0, Len(pages') - 1)
                                      ELSE activePageIndex]_vars

\* browser_tabs close without an index has closed the active tab, and the pointer
\* is not at the last of the remaining tabs
C24_Witness ==
  \E s \in Slots :
    /\ calls[s].pc = "done" /\ calls[s].out = "ok"
    /\ calls[s].tool = "browser_tabs" /\ calls[s].act = "close" /\ calls[s].idx = NoIdx
    /\ calls[s].before.set /\ calls[s].before.active < Len(calls[s].before.pages)
    /\ Range(pages) =
         Range(calls[s].before.pages) \ {calls[s].before.pages[calls[s].before.active + 1]}
    /\ activePageIndex < Len(pages) - 1

\* the call arrived with a session in place and resolves a tab by an index outside
\* the tab list as it was then: the index argument of browser_tabs select / close
\* (for close the active pointer when none is given), or the active pointer that
\* getPage uses for every tool behind it
ResolvesOutOfRange(f) ==
  /\ f.before.set /\ f.before.browser # 0
  /\ IF f.tool = "browser_tabs"
     THEN /\ f.act \in {"select", "close"}
          /\ f.act = "select" => f.idx # NoIdx
          /\ LET i == IF f.idx # NoIdx THEN f.idx ELSE f.before.active
             IN i < 0 \/ i >= Len(f.before.pages)
     ELSE /\ f.tool \notin {"browser_close", "browser_connect"}
          /\ f.before.active >= Len(f.before.pages)

\* C25: a call that resolves a tab by an index outside 0..length-1, an empty tab
\* list included, returns an error, creates no tab and leaves the tab list and the
\* active pointer as they were.
C25_OutOfRangeIsError ==
  \A f \in Ended :
    ResolvesOutOfRange(f) =>
      /\ f.out = "err"
      /\ pages = f.before.pages /\ activePageIndex = f.before.active

\* ---- reads of the buffers ----
Reads == {"browser_console_messages", "browser_network_requests"}

\* C26: when a browser_console_messages or browser_network_requests call has
\* ended, the session, the tab list, the active pointer and the buffers are what
\* they were when the call arrived, also when there was no session or no tab.
C26_ReadsChangeNothing ==
  \A s \in Slots :
    calls[s].pc = "done" /\ calls[s].tool \in Reads /\ calls[s].before.set
      => AsBefore(calls[s])

\* ---- navigations and the buffers ----

\* every entry of the tab's buffers was recorded since the navigation began
SinceNav(nav) ==
  /\ nav.tab \in DOMAIN consoleMessages =>
       \A i \in 1..Len(consoleMessages[nav.tab]) : consoleMessages[nav.tab][i] >= nav.con
  /\ nav.tab \in DOMAIN networkRequests =>
       \A i \in 1..Len(networkRequests[nav.tab]) : networkRequests[nav.tab][i] >= nav.net

\* C27: while and after a call that started a top-level navigation of a tab, by
\* browser_navigate or by a click on a link, the tab's buffers hold only events
\* recorded since that navigation began.
C27_BuffersResetOnNavigation ==
  \A s \in Slots : calls[s].nav.tab # 0 => SinceNav(calls[s].nav)


\* ---- the screenshot files ----

OnDisk(i) == \E f \in shots.files : f.id = i
Tracked(i) == \E f \in shots.files : f.id = i /\ f.dir \in shots.customScreenshotDirs
Old(i) == \E f \in shots.files : f.id = i /\ Expired(f)
Younger == {f.id : f \in {g \in shots.files : ~Expired(g)}}

\* C28: once take_screenshot has used a custom directory, a file in it that is
\* older than the 5-day retention window is deleted by a cleanup sweep that does
\* occur afterwards, and no step deletes a file that is younger than the window.
C28_OldFilesAreSwept ==
  /\ [][\A i \in Younger : \E f \in shots'.files : f.id = i]_vars
  /\ \A i \in 1..MaxShots : (Tracked(i) /\ Old(i)) ~> ~OnDisk(i)

\* ---- the idle timer and the calls ----

CallBegins == \E s \in Slots : calls[s].pc = "idle" /\ calls'[s].pc # "idle"
TimerRuns == timers # <<>> /\ timers' = Tail(timers)

\* C29: at most one idle timer is pending at any time; every tool call, as it
\* begins, cancels the pending timer and arms a new one; so a pending timer was
\* armed no earlier than the start of the most recent call, and the timer that
\* closes the session has run a full window since that start.
C29_OneTimerArmedByLatestCall ==
  /\ [](Len(timers) <= 1 /\ (idleTimer = "pending" <=> timers # <<>>))
  /\ [][CallBegins => timers' = <<0>>]_vars
  /\ [][TimerRuns => Head(timers) = 0]_vars
\* a second call has replaced the timer of the first, and that timer ran and is
\* closing the browser
C29_Witness == ops = 2 /\ timers = <<>> /\ idleTimer = "fired" /\ timerJob.pc = "closing"


\* ---- how getBrowser gets a browser ----

\* the orders in which one getBrowser may have tried its three ways
Orders == {<<>>, <<1>>, <<2>>, <<1, 2>>, <<2, 3>>, <<1, 2, 3>>}
Enters(s) == calls[s].pc = "gb" /\ calls'[s].pc = "gb_conn"
Launches(s) == 3 \notin Range(calls[s].tried) /\ 3 \in Range(calls'[s].tried)
LaunchResolves(s) == calls[s].pc = "gb_launch" /\ calls'[s].pc # "gb_launch"

\* C30: getBrowser connects to the configured endpoint first if one is set, tries
\* the local debugging endpoint only when that one is absent or has failed, and
\* launches only when the local one has failed too; as the launch begins the
\* process recorded in the pid marker has been killed and the marker removed, and
\* when the launch has resolved the marker holds the new browser's pid.
C30_GetBrowserOrder ==
  /\ [](\A s \in Slots : calls[s].tried \in Orders)
  /\ [][\A s \in Slots :
          /\ Enters(s) => calls'[s].tried = IF browserURL THEN <<1>> ELSE <<2>>
          /\ Launches(s) => pidFile' = 0 /\ (pidFile # 0 => pidFile \notin alive')
          /\ LaunchResolves(s) => pidFile' = calls[s].br /\ browser' = calls[s].br]_vars
\* a launch is under way after the configured and the local endpoint have failed,
\* and the browser of the marker was running when the launch began
C30_Witness ==
  \E s \in Slots :
    /\ calls[s].tried = <<1, 2, 3>> /\ calls[s].pc = "gb_launch"
    /\ pidFile = 0 /\ launched \ alive # {}


\* ---- the tabs a batch opens ----

BatchEnded(f) == f.pc = "done" /\ f.tool = "batch_navigate" /\ f.out = "ok"
AllSucceeded(f) == \A i \in 1..Len(f.results) : f.results[i].status = "success"

\* every browser there was is one the server launched, and it is the session
OnlyLaunched == 1..(nextBrowser - 1) \subseteq launched /\ browser \in launched

\* C31: a batch_navigate over n URLs on a pool of k tabs leaves min(MAX_TABS, k + n)
\* tabs in the pool, for k = 0 as well (stated for a batch of at least one URL
\* whose navigations all succeeded, with no browser but those the server launched).
C31_BatchOpensOnePerUrl ==
  \A s \in Slots :
    LET f == calls[s] IN
    BatchEnded(f) /\ Len(f.args) >= 1 /\ AllSucceeded(f) /\ OnlyLaunched =>
      Len(pages) = Min(MAX_TABS, Len(f.before.pages) + Len(f.args))


\* ---- the pool under overlapping calls ----

NoTabTwice == \A i, j \in 1..Len(pages) : pages[i] = pages[j] => i = j

\* C32: when two tab-creating calls overlap, the tab list never holds more than
\* MAX_TABS tabs, no tab appears twice in it, and no run of createNewPage closes
\* more than one tab for the tab it creates.
C32_OverlapKeepsPool ==
  /\ Len(pages) <= MAX_TABS
  /\ NoTabTwice
  /\ \A e \in CnpEvents : e.n <= 1


\* ---- the tab indexes a batch returns ----

\* C33: when batch_navigate returns, the tabIndex of every success record is the
\* position in the tab list of the tab that loaded that record's URL, so no two
\* success records carry the same tabIndex (stated for a batch during which no
\* tab closed by itself and no other call ran).
C33_TabIndexDesignatesTab ==
  \A s \in Slots :
    LET f == calls[s] IN
    BatchEnded(f) /\ ops = 1 =>
      \A i \in 1..Len(f.results) :
        f.results[i].status = "success" =>
          /\ f.results[i].tabIndex + 1 \in 1..Len(pages)
          /\ pages[f.results[i].tabIndex + 1] = f.results[i].tab


\* ---- hidden elements and the tree snapshot ----

\* the element is in the document and fails the style test of line 396, or is a
\* descendant of an element that fails it
Concealed(els, e) ==
  InDocument(els, e) /\ \E x \in {e} \cup Ancestors(e) : els[x].hidden

\* C34: an element whose computed style is display:none, visibility:hidden or
\* opacity:0 has no line in the outline of a snapshot, and neither has any of its
\* descendants, whatever their own style; and a snapshot writes no ref to them.
C34_HiddenSubtreeLeftOut ==
  /\ [](Taken => \A e \in Elements : Concealed(document.els, e) => e \notin Printed(Latest))
  /\ [][\A e \in Elements :
          document.loaded /\ Concealed(document.els, e) =>
            document'.els[e].ref = document.els[e].ref]_vars
\* a snapshot was taken of a document whose container is hidden and holds an
\* element that passes the style test itself: neither has a ref
C34_Witness ==
  /\ Taken /\ Len(Latest) > 0
  /\ \E d, c \in Elements :
       /\ Parent[c] = d /\ InDocument(document.els, c)
       /\ document.els[d].hidden /\ ~document.els[c].hidden /\ document.els[c].inView
       /\ document.els[d].ref = 0 /\ document.els[c].ref = 0


\* ---- what an event changes ----

\* the step changes the buffer map only at tab t, whose buffer it keeps
OnlyAt(map, map2, t) ==
  /\ DOMAIN map2 = DOMAIN map
  /\ \A u \in DOMAIN map : u # t => map2[u] = map[u]
\* an event arrives: no call moves, no tab joins or leaves, and a buffer changes
EventStep ==
  /\ calls' = calls /\ pages' = pages /\ open' = open
  /\ <<consoleMessages, networkRequests>>' # <<consoleMessages, networkRequests>>

\* C35: an event changes exactly one buffer: a console event the console buffer of
\* its tab, a request event the network buffer of its tab; the other channel of
\* that tab and both buffers of every other tab stay as they are.
C35_EventChangesOneBuffer ==
  [][EventStep =>
       \E t \in DOMAIN consoleMessages \cup DOMAIN networkRequests :
         \/ OnlyAt(consoleMessages, consoleMessages', t) /\ UNCHANGED networkRequests
         \/ OnlyAt(networkRequests, networkRequests', t) /\ UNCHANGED consoleMessages]_vars
\* a tab has recorded console events while its own network buffer and a buffer
\* of another tab hold an event each
C35_Witness ==
  \E t, u \in DOMAIN consoleMessages \cap DOMAIN networkRequests :
    /\ t # u
    /\ Len(consoleMessages[t]) >= 2
    /\ \/ Len(networkRequests[t]) = 1 /\ consoleMessages[u] = <<>>
       \/ Len(networkRequests[u]) = 1


\* ---- no session, no tabs ----

\* C36: whenever there is no session (browser is null) the tab list is empty and
\* both buffer maps are empty.
C36_NoSessionNoTabs ==
  browser = 0 =>
    /\ pages = <<>>
    /\ DOMAIN consoleMessages = {}
    /\ DOMAIN networkRequests = {}


\* ---- the active pointer ----

\* C37: the active pointer is a valid position in every state: 0 when the tab
\* list is empty, otherwise at least 0 and below the number of tabs.
C37_PointerIsValid ==
  IF pages = <<>> THEN activePageIndex = 0
  ELSE 0 <= activePageIndex /\ activePageIndex < Len(pages)


\* ---- removing a tab that is not the active one ----

\* the tab the active pointer designates in tab list q
ActiveOf(q, a) == IF a + 1 \in DOMAIN q THEN q[a + 1] ELSE 0
\* createNewPage evicts, or browser_tabs close given an index closes, the tab t
RemovedByCall(t) ==
  \E s \in Slots :
    \/ calls[s].pc = "cnp_close" /\ calls[s].pg = t
    \/ calls[s].pc = "tabs_close" /\ calls[s].idx # NoIdx /\ calls[s].pg = t
\* the step removes the tab t from the tab list, and t is not the active tab
RemovesOther(t) ==
  /\ t \in Range(pages) /\ pages' = Without(pages, t)
  /\ ActiveOf(pages, activePageIndex) \notin {0, t}
  /\ RemovedByCall(t)

\* C38: when an eviction or a browser_tabs close with an index removes a tab that
\* is not the active one, the active pointer designates the same tab after the
\* removal as before it.
C38_ActiveTabSurvivesRemoval ==
  [][\A t \in Range(pages) : RemovesOther(t) =>
       ActiveOf(pages', activePageIndex') = ActiveOf(pages, activePageIndex)]_vars


\* ---- what a ref resolves to ----

\* the elements of the document that the selector [data-mcp-ref="e<r>"] matches
Carriers(els, r) == {e \in Elements : InDocument(els, e) /\ els[e].ref = r}

\* C39: after a snapshot, whatever snapshots and changes of the document came
\* before it within the navigation, no two elements of the document carry the
\* same ref, and the ref of every line of the snapshot is carried by the element
\* of that line alone.
C39_RefDesignatesOneElement ==
  Taken =>
    /\ \A e \in Elements :
         InDocument(document.els, e) /\ document.els[e].ref # 0
           => Carriers(document.els, document.els[e].ref) = {e}
    /\ \A i \in 1..Len(Latest) :
         Carriers(document.els, Latest[i].ref) = {Latest[i].el}


\* ---- createNewPage comes to an end ----

\* the call in slot s is inside createNewPage, past its getBrowser
InCreate(s) == calls[s].pc \in {"cnp_loop", "cnp_close", "cnp_newpage", "spin"}

====
